---------------------------- MODULE Spec2Model ----------------------------
(***************************************************************************)
(* Path-confinement security layer of libs/platform/src/security.ts:       *)
(* the policy engine (initAllowedPaths, isPathAllowed, validatePath,       *)
(* validatePathWithSymlinkCheck, isPathWithinDirectory) and the secure     *)
(* file system adapter that wraps the fs primitives.                       *)
(*                                                                         *)
(* A path string is a sequence of one-character strings, so "/a/..b" is    *)
(* <<"/", "a", "/", ".", ".", "b">>.  The POSIX flavour of Node's path     *)
(* module is modelled (the server runs on POSIX hosts).                     *)
(***************************************************************************)
EXTENDS Naturals, Sequences, FiniteSets, TLC

VARIABLES
    securityMode,          \* security.ts:19   'strict' | 'permissive'
    allowedRootDirectory,  \* security.ts:32   string | null
    dataDirectory,         \* security.ts:35   string | null
    fs,                    \* the host file system: real location -> entry
    pc,                    \* position of the caller: idle / returned / pending
    call,                  \* the call being made: operation and arguments
    result,                \* what the call returned or threw
    issued,                \* the real fs call the adapter has delegated
    touched,               \* locations the delegated call read or changed
    ops,                   \* adapter operations called so far
    raced,                 \* another process changed fs after the validation
    req,                   \* validate-paths.ts: the request (parameters, body)
    res,                   \* validate-paths.ts: the response written, if any
    nextCalls,             \* validate-paths.ts: calls of next() for the request
    attempts,              \* RateLimiter.attempts: key -> AttemptRecord
    config,                \* RateLimiter.config
    now,                   \* Date.now()
    history,               \* per key: failures recorded since it had no record
    API_KEY,               \* auth.ts: process.env.AUTOMAKER_API_KEY at module load
    headers,               \* auth.ts: the request's headers and socket address
    retryAfter,            \* auth.ts: the Retry-After header of the response
    locked,                \* VerificationMutex.locked
    queue,                 \* VerificationMutex.queue: the waiting requests
    ANTHROPIC_API_KEY,     \* process.env.ANTHROPIC_API_KEY
    apiKeys,               \* setup/common.ts: apiKeys, provider -> key
    rq,                    \* the setup requests: handler position and locals
    acquireOrder,          \* requests in the order they called acquire()
    grantOrder,            \* requests in the order their acquire() resolved
    lastStore              \* the latest store-api-key request that wrote env

policy == <<securityMode, allowedRootDirectory, dataDirectory>>

\* The request being validated by the middleware and its outcome.
web == <<req, res, nextCalls>>

\* The rate limiter, its clock and the record of what was asked of it.
limiter == <<attempts, config, now, history>>

\* The authentication middleware's key, request and response header.
gate == <<API_KEY, headers, retryAfter>>

\* The setup routes: the verification mutex, the environment variable, the
\* key store and the requests in progress.
setup == <<locked, queue, ANTHROPIC_API_KEY, apiKeys, rq, acquireOrder, grantOrder, lastStore>>

routes == <<gate, setup>>

server == <<web, limiter, routes>>

vars == <<securityMode, allowedRootDirectory, dataDirectory, fs, pc, call, result,
          issued, touched, ops, raced, server>>

-----------------------------------------------------------------------------
(* Bounds of the model.                                                    *)

\* Longest candidate path, in segments, handed to the policy functions.
MaxSegs == 3

\* Deepest chain of not-yet-existing directories in a candidate path.
MaxMissing == 2

\* Symbolic links followed by one realpath before the host gives up (ELOOP).
MaxLinkHops == 2

\* Adapter operations called in one behaviour.
MaxOps == 1

\* Elements of an array parameter in a request body.
MaxItems == 2

\* Largest maxAttempts a rate limiter is configured with.
MaxAttempts == 2

\* Failures recorded for one key in one behaviour.
MaxFailures == 3

\* Last instant of the clock.
MaxTime == 4

\* Requests to the setup routes in one behaviour.
MaxRequests == 3

-----------------------------------------------------------------------------
(* Strings.                                                                *)

\* null (and the empty string, equally falsy in `if (!x)`); path.resolve
\* never returns the empty string, so a configured directory is never Null.
Null == <<>>

Slash == "/"
Dot == "."

\* String.prototype.startsWith
StartsWith(s, prefix) ==
    /\ Len(s) >= Len(prefix)
    /\ SubSeq(s, 1, Len(prefix)) = prefix

\* path.isAbsolute (posix): the first character is a separator
IsAbsolute(s) == Len(s) > 0 /\ s[1] = Slash

\* The segments of a path string: the pieces between separators.
RECURSIVE SplitFrom(_, _, _)
SplitFrom(s, i, cur) ==
    IF i > Len(s) THEN <<cur>>
    ELSE IF s[i] = Slash THEN <<cur>> \o SplitFrom(s, i + 1, <<>>)
    ELSE SplitFrom(s, i + 1, Append(cur, s[i]))

Split(s) == SplitFrom(s, 1, <<>>)

\* Array.prototype.join with the separator
RECURSIVE Join(_)
Join(segs) ==
    IF Len(segs) = 0 THEN <<>>
    ELSE IF Len(segs) = 1 THEN segs[1]
    ELSE segs[1] \o <<Slash>> \o Join(Tail(segs))

DotDot == <<Dot, Dot>>

\* normalizeString of an absolute path: empty and "." segments are dropped,
\* ".." removes the segment before it and is itself dropped at the root.
RECURSIVE NormalizeSegs(_, _)
NormalizeSegs(segs, acc) ==
    IF Len(segs) = 0 THEN acc
    ELSE LET s == Head(segs) IN
         IF s = <<>> \/ s = <<Dot>> THEN NormalizeSegs(Tail(segs), acc)
         ELSE IF s = DotDot
              THEN NormalizeSegs(Tail(segs),
                                 IF Len(acc) = 0 THEN acc
                                 ELSE SubSeq(acc, 1, Len(acc) - 1))
              ELSE NormalizeSegs(Tail(segs), Append(acc, s))

\* process.cwd(): the directory relative paths are resolved against.
Cwd == <<Slash, "a">>

\* The normalized segments of path.resolve(p).
ResolveSegs(p) ==
    LET full == IF IsAbsolute(p) THEN p ELSE Cwd \o <<Slash>> \o p
    IN  NormalizeSegs(Split(full), <<>>)

\* A location (sequence of segment names) as an absolute path string.
PathOf(segs) == <<Slash>> \o Join(segs)

\* path.resolve(p)
Resolve(p) == PathOf(ResolveSegs(p))

\* Length of the longest common prefix of two segment sequences.
RECURSIVE CommonLen(_, _)
CommonLen(a, b) ==
    IF Len(a) = 0 \/ Len(b) = 0 \/ Head(a) # Head(b) THEN 0
    ELSE 1 + CommonLen(Tail(a), Tail(b))

RECURSIVE Ups(_)
Ups(n) == IF n = 0 THEN <<>> ELSE <<DotDot>> \o Ups(n - 1)

\* path.relative(from, to): one ".." per segment of `from` below the common
\* ancestor, then the segments of `to` below it; "" when they are equal.
Relative(from, to) ==
    LET f == ResolveSegs(from)
        t == ResolveSegs(to)
        c == CommonLen(f, t)
    IN  Join(Ups(Len(f) - c) \o SubSeq(t, c + 1, Len(t)))

\* path.dirname of a resolved absolute path
Dirname(p) ==
    LET segs == ResolveSegs(p)
    IN  IF Len(segs) = 0 THEN <<Slash>>
        ELSE PathOf(SubSeq(segs, 1, Len(segs) - 1))

\* path.basename of a resolved absolute path
Basename(p) ==
    LET segs == ResolveSegs(p)
    IN  IF Len(segs) = 0 THEN <<>> ELSE segs[Len(segs)]

\* path.join(a, b) for an absolute a: a + "/" + b, normalized
PathJoin(a, b) == Resolve(a \o <<Slash>> \o b)

\* String.prototype.toLowerCase on the values SECURITY_MODE is given
ToLowerCase(s) ==
    IF s = "PERMISSIVE" \/ s = "Permissive" THEN "permissive"
    ELSE IF s = "STRICT" THEN "strict"
    ELSE s

-----------------------------------------------------------------------------
(* Policy engine.                                                          *)

\* Mutant: containment decided by comparing the strings' prefixes.
IsPathWithinDirectory_StringPrefix(resolvedPath, directoryPath) ==
    StartsWith(resolvedPath, directoryPath)

\* Mutant: only proper descendants count, the directory itself does not.
IsPathWithinDirectory_ProperDescendant(resolvedPath, directoryPath) ==
    LET relativePath == Relative(directoryPath, resolvedPath)
    IN  /\ relativePath # <<>>
        /\ ~StartsWith(relativePath, DotDot)
        /\ ~IsAbsolute(relativePath)

\* isPathWithinDirectory(resolvedPath, directoryPath)
IsPathWithinDirectory(resolvedPath, directoryPath) ==
    LET relativePath == Relative(directoryPath, resolvedPath)
    IN  ~StartsWith(relativePath, DotDot) /\ ~IsAbsolute(relativePath)

\* Mutant: no root configured allows every path, whatever the mode.
IsPathAllowedIn_FailOpen(mode, root, data, filePath) ==
    \/ root = Null
    \/ (data # Null /\ IsPathWithinDirectory(Resolve(filePath), data))
    \/ IsPathWithinDirectory(Resolve(filePath), root)

\* Mutant: no root configured denies every path outside the data directory,
\* whatever the mode.
IsPathAllowedIn_NoPermissive(mode, root, data, filePath) ==
    \/ (data # Null /\ IsPathWithinDirectory(Resolve(filePath), data))
    \/ (root # Null /\ IsPathWithinDirectory(Resolve(filePath), root))

\* isPathAllowed(filePath) under the policy (mode, root, data)
IsPathAllowedIn(mode, root, data, filePath) ==
    LET resolvedPath == Resolve(filePath)
    IN  IF data # Null /\ IsPathWithinDirectory(resolvedPath, data) THEN TRUE
        ELSE IF root = Null THEN mode = "permissive"
        ELSE IF IsPathWithinDirectory(resolvedPath, root) THEN TRUE
        ELSE FALSE

\* isPathAllowed(filePath) under the current policy state
IsPathAllowed(filePath) ==
    IsPathAllowedIn(securityMode, allowedRootDirectory, dataDirectory, filePath)

\* What a call returns or throws: status "ok" or the error's name/code,
\* value the string returned, bool the boolean returned, num the number
\* returned, about the path(s) the error message quotes.
Ok(v) == [status |-> "ok", value |-> v, bool |-> FALSE, num |-> 0, about |-> <<>>]
Bool(b) == [status |-> "ok", value |-> Null, bool |-> b, num |-> 0, about |-> <<>>]
Num(n) == [status |-> "ok", value |-> Null, bool |-> FALSE, num |-> n, about |-> <<>>]
Threw(e, msg) ==
    [status |-> e, value |-> Null, bool |-> FALSE, num |-> 0, about |-> msg]
NoResult ==
    [status |-> "none", value |-> Null, bool |-> FALSE, num |-> 0, about |-> <<>>]

\* validatePath(filePath)
ValidatePath(filePath) ==
    LET resolvedPath == Resolve(filePath)
    IN  IF ~IsPathAllowed(resolvedPath)
        THEN Threw("PathNotAllowedError", <<filePath>>)
        ELSE Ok(resolvedPath)

\* The policy state initAllowedPaths leaves, from the state it finds and
\* the environment env = [mode, root, data] (Null, and "" for the mode:
\* the variable is not set).
ModeAfterInit(env) ==
    IF ToLowerCase(env.mode) = "permissive" THEN "permissive" ELSE "strict"

RootAfterInit(old, env) == IF env.root # Null THEN Resolve(env.root) ELSE old

DataAfterInit(old, env) == IF env.data # Null THEN Resolve(env.data) ELSE old

-----------------------------------------------------------------------------
(* The host file system.  A location is the sequence of segment names of   *)
(* a real (link-free) absolute path; fs maps each existing location other  *)
(* than the root directory to its entry.                                   *)

DirEntry == [kind |-> "dir", target |-> <<>>, data |-> <<>>]
FileEntry(d) == [kind |-> "file", target |-> <<>>, data |-> d]
LinkEntry(t) == [kind |-> "link", target |-> t, data |-> <<>>]

\* "dir", "file", "link", or "none" where nothing exists.
KindAt(F, loc) ==
    IF loc = <<>> THEN "dir"
    ELSE IF loc \in DOMAIN F THEN F[loc].kind
    ELSE "none"

Front(segs) == SubSeq(segs, 1, Len(segs) - 1)
Last(segs) == segs[Len(segs)]

IsUnder(loc, dir) == Len(loc) >= Len(dir) /\ SubSeq(loc, 1, Len(dir)) = dir

Found(loc) == [err |-> "", loc |-> loc]
Failed(e) == [err |-> e, loc |-> <<>>]

\* Walk `rest` from location `cur`, following every symbolic link met (a
\* link's target is an absolute path); `hops` links may still be followed.
RECURSIVE Walk(_, _, _, _)
Walk(F, cur, rest, hops) ==
    IF Len(rest) = 0 THEN Found(cur)
    ELSE LET nxt == Append(cur, Head(rest))
             kind == KindAt(F, nxt)
         IN  IF kind = "none" THEN Failed("ENOENT")
             ELSE IF kind = "link"
                  THEN IF hops = 0 THEN Failed("ELOOP")
                       ELSE Walk(F, <<>>, ResolveSegs(F[nxt].target) \o Tail(rest),
                                 hops - 1)
             ELSE IF kind = "file" /\ Len(Tail(rest)) > 0 THEN Failed("ENOTDIR")
             ELSE Walk(F, nxt, Tail(rest), hops)

\* The location an absolute path names with every link followed (realpath).
RealLoc(F, p) == Walk(F, <<>>, ResolveSegs(p), MaxLinkHops)

\* The location an absolute path names with the links of its directory part
\* followed but its last component taken as it is (lstat, unlink, rename).
EntryLoc(F, p) ==
    LET segs == ResolveSegs(p)
    IN  IF Len(segs) = 0 THEN Found(<<>>)
        ELSE LET parent == Walk(F, <<>>, Front(segs), MaxLinkHops)
             IN  IF parent.err # "" THEN parent
                 ELSE IF KindAt(F, parent.loc) # "dir" THEN Failed("ENOTDIR")
                 ELSE Found(Append(parent.loc, Last(segs)))

\* The location open(p, O_CREAT) reads or creates: as EntryLoc, but a last
\* component that is a link, dangling or not, is followed to its target.
RECURSIVE OpenLoc(_, _, _)
OpenLoc(F, p, hops) ==
    LET e == EntryLoc(F, p)
    IN  IF e.err # "" THEN e
        ELSE IF KindAt(F, e.loc) = "link"
             THEN IF hops = 0 THEN Failed("ELOOP")
                  ELSE OpenLoc(F, F[e.loc].target, hops - 1)
        ELSE e

\* fs.lstatSync(p): [err, kind]
LstatSync(F, p) ==
    LET e == EntryLoc(F, p)
    IN  IF e.err # "" THEN [err |-> e.err, kind |-> "none"]
        ELSE IF KindAt(F, e.loc) = "none" THEN [err |-> "ENOENT", kind |-> "none"]
        ELSE [err |-> "", kind |-> KindAt(F, e.loc)]

\* fs.realpathSync(p): [err, path]
RealpathSync(F, p) ==
    LET r == RealLoc(F, p)
    IN  IF r.err # "" THEN [err |-> r.err, path |-> <<>>]
        ELSE [err |-> "", path |-> PathOf(r.loc)]

\* validatePathWithSymlinkCheck(filePath, {requireExists}) on file system F
ValidatePathWithSymlinkCheckIn(F, filePath, requireExists) ==
    LET resolvedPath == Resolve(filePath)
        lstats == LstatSync(F, resolvedPath)
        realPath == RealpathSync(F, resolvedPath)
        \* the first call of the try block to throw
        error == IF lstats.err # "" THEN lstats.err ELSE realPath.err
    IN  IF error = ""
        THEN IF ~IsPathAllowed(realPath.path)
             THEN Threw("PathNotAllowedError", <<filePath, realPath.path>>)
             ELSE Ok(realPath.path)
        ELSE IF error = "ENOENT"
        THEN IF requireExists THEN Threw("ENOENT", <<resolvedPath>>)
             ELSE LET parentDir == Dirname(resolvedPath)
                      realParentPath == RealpathSync(F, parentDir)
                  IN  IF realParentPath.err = ""
                      THEN IF ~IsPathAllowed(realParentPath.path)
                           THEN Threw("PathNotAllowedError",
                                      <<filePath, realParentPath.path>>)
                           ELSE Ok(PathJoin(realParentPath.path,
                                            Basename(resolvedPath)))
                      ELSE IF realParentPath.err = "ENOENT"
                      THEN ValidatePath(filePath)
                      ELSE Threw(realParentPath.err, <<parentDir>>)
        ELSE Threw(error, <<resolvedPath>>)

\* Mutant: the requireExists option is ignored, a missing path always goes
\* on to the parent-directory validation.
ValidatePathWithSymlinkCheck_NeverRequires(filePath, requireExists) ==
    ValidatePathWithSymlinkCheckIn(fs, filePath, FALSE)

ValidatePathWithSymlinkCheck(filePath, requireExists) ==
    ValidatePathWithSymlinkCheckIn(fs, filePath, requireExists)

-----------------------------------------------------------------------------
(* The real fs calls the adapter delegates to.  Each gives the file system *)
(* it leaves, the call's outcome, and the locations it read or changed.    *)

Effect(F, outcome, locs) == [fs |-> F, result |-> outcome, touched |-> locs]

FsError(F, e) == Effect(F, Threw(e, <<>>), {})

Put(F, loc, entry) ==
    [l \in DOMAIN F \cup {loc} |-> IF l = loc THEN entry ELSE F[l]]

Below(F, loc) == { l \in DOMAIN F : IsUnder(l, loc) }

RemoveTree(F, loc) == [l \in DOMAIN F \ Below(F, loc) |-> F[l]]

\* Each call first locates what its path(s) name, then acts on the
\* location(s) found.

\* fs.access, fs.stat: the entry the path leads to, links followed
FsStatAt(F, r) ==
    IF r.err # "" THEN FsError(F, r.err)
    ELSE Effect(F, Ok(<<KindAt(F, r.loc)>>), {r.loc})

FsStat(F, p) == FsStatAt(F, RealLoc(F, p))

\* fs.lstat: the entry itself, a final link not followed
FsLstatAt(F, e) ==
    IF e.err # "" THEN FsError(F, e.err)
    ELSE IF KindAt(F, e.loc) = "none" THEN FsError(F, "ENOENT")
    ELSE Effect(F, Ok(<<KindAt(F, e.loc)>>), {e.loc})

FsLstat(F, p) == FsLstatAt(F, EntryLoc(F, p))

\* fs.readFile
FsReadFileAt(F, r) ==
    IF r.err # "" THEN FsError(F, r.err)
    ELSE IF KindAt(F, r.loc) = "dir" THEN FsError(F, "EISDIR")
    ELSE Effect(F, Ok(F[r.loc].data), {r.loc})

FsReadFile(F, p) == FsReadFileAt(F, RealLoc(F, p))

\* fs.readdir
FsReaddirAt(F, r) ==
    IF r.err # "" THEN FsError(F, r.err)
    ELSE IF KindAt(F, r.loc) # "dir" THEN FsError(F, "ENOTDIR")
    ELSE Effect(F, Ok(<<"entries">>), {r.loc})

FsReaddir(F, p) == FsReaddirAt(F, RealLoc(F, p))

\* fs.writeFile (append = FALSE) and fs.appendFile (append = TRUE): the file
\* is opened with O_CREAT, which follows a final link to its target.
FsWriteAt(F, o, append) ==
    IF o.err # "" THEN FsError(F, o.err)
    ELSE IF KindAt(F, o.loc) = "dir" THEN FsError(F, "EISDIR")
    ELSE Effect(Put(F, o.loc,
                    FileEntry(Append(IF KindAt(F, o.loc) = "file" /\ append
                                     THEN F[o.loc].data ELSE <<>>, "w"))),
                Ok(<<>>), {o.loc})

FsWrite(F, p, append) == FsWriteAt(F, OpenLoc(F, p, MaxLinkHops), append)

\* fs.mkdir without recursive
FsMkdirAt(F, e) ==
    IF e.err # "" THEN FsError(F, e.err)
    ELSE IF KindAt(F, e.loc) # "none" THEN FsError(F, "EEXIST")
    ELSE Effect(Put(F, e.loc, DirEntry), Ok(<<>>), {e.loc})

FsMkdir(F, p) == FsMkdirAt(F, EntryLoc(F, p))

\* fs.mkdir with recursive: every missing directory on the way is created,
\* links on the way are followed.
RECURSIVE MkdirWalk(_, _, _, _, _)
MkdirThrough(F, t, rest, hops, made) ==
    IF t.err # "" \/ KindAt(F, t.loc) # "dir"
    THEN Effect(F, Threw("EEXIST", <<>>), made)
    ELSE MkdirWalk(F, t.loc, rest, hops, made)

MkdirStep(F, nxt, kind, rest, hops, made) ==
    IF kind = "none"
    THEN MkdirWalk(Put(F, nxt, DirEntry), nxt, Tail(rest), hops, made \cup {nxt})
    ELSE IF kind = "dir" THEN MkdirWalk(F, nxt, Tail(rest), hops, made)
    ELSE IF kind = "file"
         THEN Effect(F, Threw(IF Len(rest) = 1 THEN "EEXIST" ELSE "ENOTDIR", <<>>),
                     made)
    ELSE IF hops = 0 THEN Effect(F, Threw("ELOOP", <<>>), made)
    ELSE MkdirThrough(F, RealLoc(F, F[nxt].target), Tail(rest), hops - 1, made)

MkdirWalk(F, cur, rest, hops, made) ==
    IF Len(rest) = 0 THEN Effect(F, Ok(<<>>), made \cup {cur})
    ELSE MkdirStep(F, Append(cur, Head(rest)), KindAt(F, Append(cur, Head(rest))),
                   rest, hops, made)

FsMkdirRecursive(F, p) == MkdirWalk(F, <<>>, ResolveSegs(p), MaxLinkHops, {})

\* fs.rm: the entry itself (a final link is not followed); a directory
\* needs recursive, a missing entry is an error unless force.
FsRmAt(F, e, kind, recursive, force) ==
    IF e.err # "" \/ kind = "none"
    THEN IF force THEN Effect(F, Ok(<<>>), {})
         ELSE FsError(F, IF e.err # "" THEN e.err ELSE "ENOENT")
    ELSE IF kind = "dir" /\ ~recursive THEN FsError(F, "ERR_FS_EISDIR")
    ELSE IF e.loc = <<>> THEN FsError(F, "EBUSY")
    ELSE Effect(RemoveTree(F, e.loc), Ok(<<>>), Below(F, e.loc))

FsRmEntry(F, e, recursive, force) == FsRmAt(F, e, KindAt(F, e.loc), recursive, force)

FsRm(F, p, recursive, force) == FsRmEntry(F, EntryLoc(F, p), recursive, force)

\* fs.unlink
FsUnlinkAt(F, e) ==
    IF e.err # "" THEN FsError(F, e.err)
    ELSE IF KindAt(F, e.loc) = "none" THEN FsError(F, "ENOENT")
    ELSE IF KindAt(F, e.loc) = "dir" THEN FsError(F, "EISDIR")
    ELSE Effect(RemoveTree(F, e.loc), Ok(<<>>), {e.loc})

FsUnlink(F, p) == FsUnlinkAt(F, EntryLoc(F, p))

\* fs.copyFile: the source is read with links followed, the destination is
\* opened with O_CREAT.
FsCopyFileAt(F, r, o) ==
    IF r.err # "" THEN FsError(F, r.err)
    ELSE IF KindAt(F, r.loc) = "dir" THEN FsError(F, "EISDIR")
    ELSE IF o.err # "" THEN FsError(F, o.err)
    ELSE IF KindAt(F, o.loc) = "dir" THEN FsError(F, "EISDIR")
    ELSE Effect(Put(F, o.loc, FileEntry(F[r.loc].data)), Ok(<<>>), {r.loc, o.loc})

FsCopyFile(F, src, dest) ==
    FsCopyFileAt(F, RealLoc(F, src), OpenLoc(F, dest, MaxLinkHops))

\* fs.rename: both names are taken as they are (a final link is not
\* followed); the entry and everything below it moves.
Moved(F, from, to, kept, moved) ==
    [l \in kept \cup { to \o SubSeq(m, Len(from) + 1, Len(m)) : m \in moved } |->
        IF l \in kept THEN F[l]
        ELSE F[CHOOSE m \in moved : to \o SubSeq(m, Len(from) + 1, Len(m)) = l]]

FsRenameAt(F, o, n, ok, nk) ==
    IF o.err # "" THEN FsError(F, o.err)
    ELSE IF n.err # "" THEN FsError(F, n.err)
    ELSE IF ok = "none" THEN FsError(F, "ENOENT")
    ELSE IF o.loc = <<>> \/ n.loc = <<>> THEN FsError(F, "EBUSY")
    ELSE IF o.loc = n.loc THEN Effect(F, Ok(<<>>), {o.loc})
    ELSE IF IsUnder(n.loc, o.loc) THEN FsError(F, "EINVAL")
    ELSE IF ok = "dir" /\ nk \in {"file", "link"} THEN FsError(F, "ENOTDIR")
    ELSE IF ok # "dir" /\ nk = "dir" THEN FsError(F, "EISDIR")
    ELSE IF nk = "dir" /\ Below(F, n.loc) # {n.loc} THEN FsError(F, "ENOTEMPTY")
    ELSE Effect(Moved(F, o.loc, n.loc,
                      (DOMAIN F \ Below(F, o.loc)) \ Below(F, n.loc),
                      Below(F, o.loc)),
                Ok(<<>>), {o.loc, n.loc})

FsRenameEntries(F, o, n) == FsRenameAt(F, o, n, KindAt(F, o.loc), KindAt(F, n.loc))

FsRename(F, oldPath, newPath) ==
    FsRenameEntries(F, EntryLoc(F, oldPath), EntryLoc(F, newPath))

\* The delegated call c = [fn, path, path2, recursive, force] carried out.
Perform(F, c) ==
    CASE c.fn \in {"access", "stat"} -> FsStat(F, c.path)
      [] c.fn = "lstat" -> FsLstat(F, c.path)
      [] c.fn = "readFile" -> FsReadFile(F, c.path)
      [] c.fn = "readdir" -> FsReaddir(F, c.path)
      [] c.fn = "writeFile" -> FsWrite(F, c.path, FALSE)
      [] c.fn = "appendFile" -> FsWrite(F, c.path, TRUE)
      [] c.fn = "mkdir" -> IF c.recursive THEN FsMkdirRecursive(F, c.path)
                           ELSE FsMkdir(F, c.path)
      [] c.fn = "rm" -> FsRm(F, c.path, c.recursive, c.force)
      [] c.fn = "unlink" -> FsUnlink(F, c.path)
      [] c.fn = "copyFile" -> FsCopyFile(F, c.path, c.path2)
      [] c.fn = "rename" -> FsRename(F, c.path, c.path2)

-----------------------------------------------------------------------------
(* RateLimiter (apps/server/src/lib/rate-limiter.ts).  Each method is given *)
(* the attempts map A, the configuration cfg and the time t = Date.now(),  *)
(* and yields the map it leaves and the value it returns.                  *)

\* The keys (client addresses) the limiter is asked about.
Keys == {"k1", "k2"}

\* An AttemptRecord; present = FALSE stands for no entry in the map.  A
\* blockedUntil of 0 stands for null: both are falsy in
\* `record.blockedUntil && ...`, and no block ends at time 0.
NoRecord == [present |-> FALSE, count |-> 0, firstAttempt |-> 0, blockedUntil |-> 0]

AttemptRecord(c, f, b) ==
    [present |-> TRUE, count |-> c, firstAttempt |-> f, blockedUntil |-> b]

DEFAULT_CONFIG == [maxAttempts |-> 5, windowMs |-> 900000, blockDurationMs |-> 900000]

Answer(A, v) == [attempts |-> A, value |-> v]

Max(a, b) == IF a >= b THEN a ELSE b

\* a - b where the code then asks whether it is positive
Minus(a, b) == IF a >= b THEN a - b ELSE 0

\* now - record.firstAttempt > this.config.windowMs
WindowExpired(record, cfg, t) == t > record.firstAttempt + cfg.windowMs

\* isBlocked(key)
IsBlocked(A, cfg, t, key) ==
    IF ~A[key].present THEN Answer(A, FALSE)
    ELSE IF A[key].blockedUntil # 0 /\ t < A[key].blockedUntil THEN Answer(A, TRUE)
    ELSE IF A[key].blockedUntil # 0 /\ t >= A[key].blockedUntil
         THEN Answer([A EXCEPT ![key] = NoRecord], FALSE)
    ELSE Answer(A, FALSE)

\* getBlockTimeRemaining(key)
GetBlockTimeRemaining(A, cfg, t, key) ==
    IF ~A[key].present \/ A[key].blockedUntil = 0 THEN Answer(A, 0)
    ELSE Answer(A, Minus(A[key].blockedUntil, t))

\* Mutant: the failure is counted in the old window however old it is.
RecordFailure_NoWindowReset(A, cfg, t, key) ==
    IF ~A[key].present
    THEN Answer([A EXCEPT ![key] = AttemptRecord(1, t, 0)], FALSE)
    ELSE IF A[key].count + 1 >= cfg.maxAttempts
         THEN Answer([A EXCEPT ![key] = AttemptRecord(A[key].count + 1,
                                                     A[key].firstAttempt,
                                                     t + cfg.blockDurationMs)],
                     TRUE)
    ELSE Answer([A EXCEPT ![key].count = @ + 1], FALSE)

\* Mutant: the key is blocked by the failure after the maxAttempts-th.
RecordFailure_OneMore(A, cfg, t, key) ==
    IF ~A[key].present
    THEN Answer([A EXCEPT ![key] = AttemptRecord(1, t, 0)], FALSE)
    ELSE IF WindowExpired(A[key], cfg, t)
    THEN Answer([A EXCEPT ![key] = AttemptRecord(1, t, 0)], FALSE)
    ELSE IF A[key].count + 1 > cfg.maxAttempts
         THEN Answer([A EXCEPT ![key] = AttemptRecord(A[key].count + 1,
                                                     A[key].firstAttempt,
                                                     t + cfg.blockDurationMs)],
                     TRUE)
    ELSE Answer([A EXCEPT ![key].count = @ + 1], FALSE)

\* recordFailure(key)
RecordFailure(A, cfg, t, key) ==
    IF ~A[key].present
    THEN Answer([A EXCEPT ![key] = AttemptRecord(1, t, 0)], FALSE)
    ELSE IF WindowExpired(A[key], cfg, t)
    THEN Answer([A EXCEPT ![key] = AttemptRecord(1, t, 0)], FALSE)
    ELSE IF A[key].count + 1 >= cfg.maxAttempts
         THEN Answer([A EXCEPT ![key] = AttemptRecord(A[key].count + 1,
                                                     A[key].firstAttempt,
                                                     t + cfg.blockDurationMs)],
                     TRUE)
    ELSE Answer([A EXCEPT ![key].count = @ + 1], FALSE)

\* reset(key)
Reset(A, cfg, t, key) == Answer([A EXCEPT ![key] = NoRecord], 0)

\* getAttemptsRemaining(key)
GetAttemptsRemaining(A, cfg, t, key) ==
    IF ~A[key].present THEN Answer(A, cfg.maxAttempts)
    ELSE IF WindowExpired(A[key], cfg, t) THEN Answer(A, cfg.maxAttempts)
    ELSE Answer(A, Max(0, Minus(cfg.maxAttempts, A[key].count)))

\* cleanup(): the records whose block has expired, and the unblocked ones
\* whose window has expired, are deleted.
Expired(record, cfg, t) ==
    \/ record.blockedUntil # 0 /\ t >= record.blockedUntil
    \/ record.blockedUntil = 0 /\ WindowExpired(record, cfg, t)

Cleanup(A, cfg, t) ==
    [key \in Keys |->
        IF A[key].present /\ Expired(A[key], cfg, t) THEN NoRecord ELSE A[key]]

\* What is remembered of the calls made for a key: n failures recorded
\* since the key last had no record, the first of them at time first and
\* the latest at time last; blockedAt the time of the latest recordFailure
\* that returned true (0: none, or the key was reset, or a failure was
\* recorded after that block's duration).
NoHistory == [n |-> 0, first |-> 0, last |-> 0, blockedAt |-> 0]

Remember(h, hadRecord, cfg, t, blocked) ==
    [n |-> IF hadRecord THEN h.n + 1 ELSE 1,
     first |-> IF hadRecord THEN h.first ELSE t,
     last |-> t,
     blockedAt |-> IF blocked THEN t
                   ELSE IF h.blockedAt # 0 /\ t >= h.blockedAt + cfg.blockDurationMs
                        THEN 0
                   ELSE h.blockedAt]

-----------------------------------------------------------------------------
(* validatePathParams (apps/server/src/middleware/validate-paths.ts).      *)
(* A declared parameter is [name, suffix] with suffix "", "?" or "[]".  A  *)
(* value of req.body is [type, str, items]: its typeof (with "array" and   *)
(* "null" told apart, as Array.isArray and `=== null` do), the string     *)
(* when it is one, the elements when it is an array.                       *)

Undefined == [type |-> "undefined", str |-> <<>>, items |-> <<>>]
NullValue == [type |-> "null", str |-> <<>>, items |-> <<>>]
StringValue(str) == [type |-> "string", str |-> str, items |-> <<>>]
NumberValue == [type |-> "number", str |-> <<>>, items |-> <<>>]
ArrayValue(items) == [type |-> "array", str |-> <<>>, items |-> items]

\* The try block's progress: "ok", or the name of the error thrown.
Passed == "ok"

\* assertValidPathString(value, paramName); validatePath(value)
CheckValue(value) ==
    IF value.type # "string" THEN "InvalidPathTypeError"
    ELSE IF ValidatePath(value.str).status = "ok" THEN Passed
    ELSE ValidatePath(value.str).status

\* Mutant: only the first element of an array parameter is validated.
RECURSIVE CheckItems_FirstOnly(_, _)
CheckItems_FirstOnly(values, i) ==
    IF i > Len(values) \/ i > 1 THEN Passed
    ELSE IF CheckValue(values[i]) # Passed THEN CheckValue(values[i])
    ELSE CheckItems_FirstOnly(values, i + 1)

\* for (let i = 0; i < values.length; i++) { ... }
RECURSIVE CheckItems(_, _)
CheckItems(values, i) ==
    IF i > Len(values) THEN Passed
    ELSE IF CheckValue(values[i]) # Passed THEN CheckValue(values[i])
    ELSE CheckItems(values, i + 1)

\* One round of `for (const paramName of paramNames)`
CheckParam(body, param) ==
    LET value == body[param.name]
    IN  IF param.suffix = "?"
        THEN IF value.type \notin {"undefined", "null"} THEN CheckValue(value)
             ELSE Passed
        ELSE IF param.suffix = "[]"
        THEN IF value.type \in {"undefined", "null"} THEN Passed
             ELSE IF value.type # "array" THEN "InvalidPathTypeError"
             ELSE CheckItems(value.items, 1)
        ELSE IF value.type \notin {"undefined", "null"} THEN CheckValue(value)
        ELSE Passed

\* The for loop over paramNames: the first error thrown ends it.
RECURSIVE CheckParams(_, _, _)
CheckParams(body, paramNames, i) ==
    IF i > Len(paramNames) THEN Passed
    ELSE IF CheckParam(body, paramNames[i]) # Passed
         THEN CheckParam(body, paramNames[i])
    ELSE CheckParams(body, paramNames, i + 1)

\* The response: statusCode 0 while nothing has been written.
NoRes == [statusCode |-> 0, success |-> TRUE, error |-> ""]
Json(code, error) == [statusCode |-> code, success |-> FALSE, error |-> error]

\* The catch block: what is written for the error thrown.
Respond(thrown) ==
    IF thrown = "PathNotAllowedError" THEN Json(403, thrown)
    ELSE IF thrown = "InvalidPathTypeError" THEN Json(400, thrown)
    ELSE NoRes

-----------------------------------------------------------------------------
(* authMiddleware (apps/server/src/lib/auth.ts).  A key is a string as a   *)
(* sequence of characters; Null stands for a header that is missing or     *)
(* empty and for an unset AUTOMAKER_API_KEY, all falsy in `if (!x)`.       *)

\* Mutant: the provided key is accepted when the configured key starts
\* with it.
SecureCompare_Prefix(a, b) == StartsWith(b, a)

\* secureCompare(a, b): keys of different length differ; timingSafeEqual
\* compares keys of equal length byte by byte.
SecureCompare(a, b) ==
    IF Len(a) # Len(b) THEN FALSE
    ELSE \A i \in 1..Len(a) : a[i] = b[i]

\* getClientIp(req): the first address of X-Forwarded-For when the header
\* is there, the socket's address otherwise.
GetClientIp(h) ==
    IF Len(h.forwarded) > 0 THEN h.forwarded[1] ELSE h.remoteAddress

\* Math.ceil(ms / 1000)
CeilSeconds(ms) == (ms + 999) \div 1000

NoHeader == [set |-> FALSE, value |-> 0]
SetHeader(v) == [set |-> TRUE, value |-> v]

\* What authMiddleware leaves: the limiter's map, the response, the calls
\* of next(), the Retry-After header, and what was asked of the limiter
\* ("failure": recordFailure, which returned blocked; "reset"; "none").
AuthResult(A, r, n, header, asked, blocked) ==
    [attempts |-> A, res |-> r, nextCalls |-> n, retryAfter |-> header,
     asked |-> asked, blocked |-> blocked]

\* authMiddleware(req, res, next) with the configured key apiKey, at time t
AuthMiddleware(A, cfg, t, apiKey, h) ==
    IF apiKey = Null THEN AuthResult(A, NoRes, 1, NoHeader, "none", FALSE)
    ELSE IF IsBlocked(A, cfg, t, GetClientIp(h)).value
    THEN AuthResult(A, Json(429, "Too many failed authentication attempts"), 0,
                    SetHeader(CeilSeconds(
                        GetBlockTimeRemaining(A, cfg, t, GetClientIp(h)).value)),
                    "none", FALSE)
    ELSE IF h.apiKey = Null
    THEN AuthResult(IsBlocked(A, cfg, t, GetClientIp(h)).attempts,
                    Json(401, "Authentication required"), 0, NoHeader, "none", FALSE)
    ELSE IF ~SecureCompare(h.apiKey, apiKey)
    THEN AuthResult(RecordFailure(IsBlocked(A, cfg, t, GetClientIp(h)).attempts,
                                  cfg, t, GetClientIp(h)).attempts,
                    Json(403, "Invalid API key"), 0, NoHeader, "failure",
                    RecordFailure(IsBlocked(A, cfg, t, GetClientIp(h)).attempts,
                                  cfg, t, GetClientIp(h)).value)
    ELSE AuthResult(Reset(IsBlocked(A, cfg, t, GetClientIp(h)).attempts,
                          cfg, t, GetClientIp(h)).attempts,
                    NoRes, 1, NoHeader, "reset", FALSE)

\* setInterval(() => { apiKeyRateLimiter.cleanup(); ... }, 5 * 60 * 1000)
CleanupIntervalMs == 5 * 60 * 1000

-----------------------------------------------------------------------------
(* The setup routes (apps/server/src/routes/setup): VerificationMutex,     *)
(* the verify-claude-auth handler's handling of ANTHROPIC_API_KEY, and the *)
(* store-api-key handler.  A waiting caller of acquire() is named by its   *)
(* request; resolving its promise is handing it the lock.                  *)

\* undefined: the variable is not set, the store has no key
Unset == "undefined"

\* Mutant: a later caller of acquire() is put at the head of the queue.
Acquire_Front(l, q, i) ==
    IF ~l THEN [locked |-> TRUE, queue |-> q, resolved |-> TRUE]
    ELSE [locked |-> l, queue |-> <<i>> \o q, resolved |-> FALSE]

\* VerificationMutex.acquire() called by request i
Acquire(l, q, i) ==
    IF ~l THEN [locked |-> TRUE, queue |-> q, resolved |-> TRUE]
    ELSE [locked |-> l, queue |-> Append(q, i), resolved |-> FALSE]

\* Mutant: release() marks the lock free also when it hands it to a waiter.
Release_Unlocks(l, q) ==
    IF Len(q) > 0 THEN [locked |-> FALSE, queue |-> Tail(q), next |-> Head(q)]
    ELSE [locked |-> FALSE, queue |-> q, next |-> 0]

\* VerificationMutex.release(): next is the waiter resumed, 0 for none
Release(l, q) ==
    IF Len(q) > 0 THEN [locked |-> l, queue |-> Tail(q), next |-> Head(q)]
    ELSE [locked |-> FALSE, queue |-> q, next |-> 0]

\* The early validation before the mutex: an API key is needed but neither
\* stored nor in the environment.
KeyMissing(authMethod, keys, e) ==
    authMethod = "api_key" /\ keys["anthropic"] = Unset /\ e = Unset

\* The try block's configuration of process.env.ANTHROPIC_API_KEY
ConfigureEnv(authMethod, keys, e) ==
    IF authMethod = "cli" THEN Unset
    ELSE IF authMethod = "api_key" /\ keys["anthropic"] # Unset THEN keys["anthropic"]
    ELSE e

\* The finally block's restoration of process.env.ANTHROPIC_API_KEY
RestoreEnv(authMethod, originalAnthropicKey, e) ==
    IF originalAnthropicKey # Unset THEN originalAnthropicKey
    ELSE IF authMethod = "cli" THEN Unset
    ELSE e

-----------------------------------------------------------------------------
(* Inputs.                                                                 *)

\* Segment names candidate paths are built from: the root's name "a", a
\* sibling sharing its prefix "ab", a legal name starting with two dots
\* "..b", the data directory's name "d", and the special segments.
Tokens == { <<"a">>, <<"a", "b">>, <<Dot, Dot, "b">>, <<"d">>,
            DotDot, <<Dot>>, <<>> }

SegSeqs(n) == UNION { [1..k -> Tokens] : k \in 1..n }

\* Candidate path strings: absolute and relative, up to MaxSegs segments.
Candidates ==
    { IF abs THEN <<Slash>> \o Join(segs) ELSE Join(segs) :
        abs \in BOOLEAN, segs \in SegSeqs(MaxSegs) }

\* Values of SECURITY_MODE, ALLOWED_ROOT_DIRECTORY and DATA_DIR.
ModeEnvs == { "", "strict", "permissive", "PERMISSIVE", "other" }
RootEnvs == { Null, <<Slash, "a">>, <<Slash, "a", Slash>> }
DataEnvs == { Null, <<Slash, "d">>, <<Slash, "a", Slash, "d">> }
Envs == [mode : ModeEnvs, root : RootEnvs, data : DataEnvs]

NoCall == [op |-> "none", path |-> <<>>, path2 |-> <<>>, requireExists |-> FALSE,
           recursive |-> FALSE, force |-> FALSE, key |-> "",
           env |-> [mode |-> "", root |-> Null, data |-> Null]]

\* The file systems a behaviour may start from.  /a is the allowed root,
\* /d the data directory, /e lies outside both.  /a/k is a link to the
\* directory /e; /a/l is a link to linkTarget; /e/t exists or not.
La == <<"a">>
Ld == <<"d">>
Le == <<"e">>

StartFs(linkTarget, targetExists) ==
    LET base == (<<La>> :> DirEntry) @@ (<<Ld>> :> DirEntry) @@ (<<Le>> :> DirEntry)
                @@ (<<La, <<"f">>>> :> FileEntry(<<"0">>))
                @@ (<<La, <<"k">>>> :> LinkEntry(PathOf(<<Le>>)))
                @@ (<<La, <<"l">>>> :> LinkEntry(linkTarget))
    IN  IF targetExists THEN base @@ (<<Le, <<"t">>>> :> FileEntry(<<"0">>))
        ELSE base

StartFileSystems ==
    { StartFs(PathOf(<<Le, <<"t">>>>), TRUE),
      StartFs(PathOf(<<Le, <<"t">>>>), FALSE),
      StartFs(PathOf(<<La, <<"f">>>>), TRUE) }

\* A chain of n not-yet-existing names.
RECURSIVE Missing(_)
Missing(n) == IF n = 0 THEN <<>> ELSE <<<<"n">>>> \o Missing(n - 1)

\* Candidate paths for the operations that look at the file system: the
\* entries of the start file systems, seen directly and through the links,
\* and new names up to MaxMissing levels below the directories.
ExistingCandidates ==
    { PathOf(<<La, <<"f">>>>), PathOf(<<La, <<"l">>>>), PathOf(<<La, <<"k">>>>),
      PathOf(<<La, <<"k">>, <<"t">>>>), PathOf(<<Le, <<"t">>>>), PathOf(<<La>>),
      PathOf(<<Ld>>) }

NewCandidates ==
    { PathOf(dir \o Missing(n)) :
        dir \in { <<La>>, <<La, <<"k">>>>, <<Le>>, <<Ld>> }, n \in 1..MaxMissing }

FsCandidates == ExistingCandidates \cup NewCandidates

\* Requests to the middleware: a list of declared parameters over two
\* names, each name declared at most once, and a body giving each name
\* nothing, null, a path inside or outside the root, a number, or an array
\* of up to MaxItems such values.
Names == {"p", "q"}
ParamLists ==
    LET lists == UNION { [1..k -> [name : Names, suffix : {"", "?", "[]"}]] :
                         k \in 0..Cardinality(Names) }
    IN  { l \in lists : \A i, j \in 1..Len(l) : l[i].name = l[j].name => i = j }

Values ==
    LET paths == { PathOf(<<La, <<"f">>>>), PathOf(<<Le, <<"t">>>>) }
        items == { StringValue(p) : p \in paths } \cup {NumberValue}
    IN  {Undefined, NullValue, NumberValue}
        \cup { StringValue(p) : p \in paths }
        \cup { ArrayValue(a) : a \in UNION { [1..k -> items] : k \in 0..MaxItems } }
Bodies == [Names -> Values]

NoReq == [paramNames |-> <<>>, body |-> [n \in Names |-> Undefined]]

\* Requests to authMiddleware: the X-API-Key header is missing, the
\* configured key, a key differing in one character, the key with an extra
\* character, or a proper prefix of the key; the client is named by the
\* socket address or by the first address of X-Forwarded-For.
ConfiguredKey == <<"s", "k">>
ProvidedKeys == { Null, ConfiguredKey, <<"s", "x">>, <<"s", "k", "x">>, <<"s">> }
Headers ==
    [apiKey : ProvidedKeys, forwarded : { <<>>, <<"k2", "k1">> }, remoteAddress : Keys]
NoHeaders == [apiKey |-> Null, forwarded |-> <<>>, remoteAddress |-> ""]

\* The environments the server is started with in the middleware runs.
MwEnvs == [mode : {"", "permissive"}, root : {Null, <<Slash, "a">>}, data : {Null}]

\* Configurations and times of the rate limiter runs.
Configs == [maxAttempts : 1..MaxAttempts, windowMs : {1, 2}, blockDurationMs : {1, 3}]

\* The environments the server is started with in the file system runs.
FsEnvs == [mode : {"", "permissive"}, root : {Null, <<Slash, "a">>},
           data : {Null, <<Slash, "d">>}]

\* The setup requests of a behaviour, and a request not yet made.  pc is
\* the handler's position: "new", "waiting" (acquire() pending in the
\* queue), "granted" (acquire() resolved, the continuation not yet run),
\* "querying" (inside the try block, awaiting the stream), "persisting"
\* (awaiting persistApiKeyToEnv), "done" (the response is written).
\* overwritten: a store request wrote the variable while this request was
\* inside the try block; releases: calls of release() by this request.
Requests == 1..MaxRequests

NoRq ==
    [kind |-> "none", pc |-> "new", authMethod |-> "", provider |-> "",
     apiKey |-> Unset, originalAnthropicKey |-> Unset, statusCode |-> 0,
     success |-> FALSE, authenticated |-> FALSE, overwritten |-> FALSE, releases |-> 0]

\* req.body.authMethod: 'cli', 'api_key', absent ("auto"), or not valid.
AuthMethods == { "cli", "api_key", "auto", "invalid" }

\* How the test query ends: it answers, it reports an authentication
\* error, it throws, or the 30-second timeout aborts it.
QueryOutcomes == { "verified", "failed", "exception", "timeout" }

\* req.body of store-api-key: the providers the store is asked for, none
\* ("": the field is missing), and the keys.
Providers == { "anthropic", "anthropic_oauth_token", "openai" }
StoreBodies ==
    [provider : Providers, apiKey : {"k1", "k2"}]
        \cup { [provider |-> "", apiKey |-> "k1"],
               [provider |-> "anthropic", apiKey |-> Unset] }

\* The process before any request reaches the authentication middleware or
\* the setup routes.
RoutesStart ==
    /\ API_KEY = Null
    /\ headers = NoHeaders
    /\ retryAfter = NoHeader
    /\ locked = FALSE
    /\ queue = <<>>
    /\ ANTHROPIC_API_KEY = Unset
    /\ apiKeys = [p \in Providers |-> Unset]
    /\ rq = [i \in Requests |-> NoRq]
    /\ acquireOrder = <<>>
    /\ grantOrder = <<>>
    /\ lastStore = 0

-----------------------------------------------------------------------------
(* The policy functions called on the process-wide state.                  *)

\* The server before any request: nothing validated, the shared
\* limiter empty with its default configuration.
ServerStart ==
    /\ raced = FALSE
    /\ req = NoReq
    /\ res = NoRes
    /\ nextCalls = 0
    /\ attempts = [key \in Keys |-> NoRecord]
    /\ config = DEFAULT_CONFIG
    /\ now = 1
    /\ history = [key \in Keys |-> NoHistory]
    /\ RoutesStart

\* Module load: securityMode = 'strict', both directories null.
Init ==
    /\ securityMode = "strict"
    /\ allowedRootDirectory = Null
    /\ dataDirectory = Null
    /\ fs = StartFs(PathOf(<<Le, <<"t">>>>), TRUE)
    /\ pc = "idle"
    /\ call = NoCall
    /\ result = NoResult
    /\ issued = <<>>
    /\ touched = {}
    /\ ops = 0
    /\ ServerStart

initAllowedPaths ==
    /\ pc = "idle"
    /\ \E env \in Envs :
        /\ securityMode' = ModeAfterInit(env)
        /\ allowedRootDirectory' = RootAfterInit(allowedRootDirectory, env)
        /\ dataDirectory' = DataAfterInit(dataDirectory, env)
        /\ call' = [NoCall EXCEPT !.op = "initAllowedPaths", !.env = env]
        /\ result' = Ok(Null)
        /\ pc' = "returned"
        /\ UNCHANGED <<fs, issued, touched, ops, raced, server>>

isPathAllowed ==
    /\ pc = "idle"
    /\ \E p \in Candidates :
        /\ call' = [NoCall EXCEPT !.op = "isPathAllowed", !.path = p]
        /\ result' = Bool(IsPathAllowed(p))
        /\ pc' = "returned"
        /\ UNCHANGED <<policy, fs, issued, touched, ops, raced, server>>

validatePath ==
    /\ pc = "idle"
    /\ \E p \in Candidates :
        /\ call' = [NoCall EXCEPT !.op = "validatePath", !.path = p]
        /\ result' = ValidatePath(p)
        /\ pc' = "returned"
        /\ UNCHANGED <<policy, fs, issued, touched, ops, raced, server>>

\* The caller takes the result and is ready for its next call.
Return ==
    /\ pc = "returned"
    /\ pc' = "idle"
    /\ call' = NoCall
    /\ result' = NoResult
    /\ issued' = <<>>
    /\ touched' = {}
    /\ raced' = FALSE
    /\ UNCHANGED <<policy, fs, ops, server>>

Next == initAllowedPaths \/ isPathAllowed \/ validatePath \/ Return

Spec == Init /\ [][Next]_vars

-----------------------------------------------------------------------------
(* The validator with symlink check and the adapter, on a file system.     *)

\* After startup: initAllowedPaths has run once on the module-load state.
InitFs ==
    /\ \E env \in FsEnvs :
        /\ securityMode = ModeAfterInit(env)
        /\ allowedRootDirectory = RootAfterInit(Null, env)
        /\ dataDirectory = DataAfterInit(Null, env)
    /\ fs \in StartFileSystems
    /\ pc = "idle"
    /\ call = NoCall
    /\ result = NoResult
    /\ issued = <<>>
    /\ touched = {}
    /\ ops = 0
    /\ ServerStart

validatePathWithSymlinkCheck ==
    /\ pc = "idle"
    /\ \E p \in FsCandidates, requireExists \in BOOLEAN :
        /\ call' = [NoCall EXCEPT !.op = "validatePathWithSymlinkCheck", !.path = p,
                                  !.requireExists = requireExists]
        /\ result' = ValidatePathWithSymlinkCheck(p, requireExists)
        /\ pc' = "returned"
        /\ UNCHANGED <<policy, fs, issued, touched, ops, raced, server>>

\* Mutant: the call is delegated once the first path argument has passed.
Delegation_FirstOnly(c, v1, v2) ==
    IF v1.status # "ok" THEN [issued |-> <<>>, result |-> v1]
    ELSE [issued |-> <<[fn |-> c.op, path |-> v1.value, path2 |-> v2.value,
                        recursive |-> c.recursive, force |-> c.force]>>,
          result |-> NoResult]

\* Mutant: the fs call is handed the caller's strings, not the validated paths.
Delegation_CallerPath(c, v1, v2) ==
    IF v1.status # "ok" THEN [issued |-> <<>>, result |-> v1]
    ELSE IF v2.status # "ok" THEN [issued |-> <<>>, result |-> v2]
    ELSE [issued |-> <<[fn |-> c.op, path |-> c.path, path2 |-> c.path2,
                        recursive |-> c.recursive, force |-> c.force]>>,
          result |-> NoResult]

\* What an adapter operation does with the outcomes v1, v2 of validating
\* its path arguments (v2 = Ok for a one-path operation): the first failure
\* is thrown and nothing is delegated; otherwise the one fs call is issued
\* on the validated paths.
Delegation(c, v1, v2) ==
    IF v1.status # "ok" THEN [issued |-> <<>>, result |-> v1]
    ELSE IF v2.status # "ok" THEN [issued |-> <<>>, result |-> v2]
    ELSE [issued |-> <<[fn |-> c.op, path |-> v1.value, path2 |-> v2.value,
                        recursive |-> c.recursive, force |-> c.force]>>,
          result |-> NoResult]

Adapter(c, v1, v2) ==
    LET d == Delegation(c, v1, v2)
    IN  /\ ops < MaxOps
        /\ call' = c
        /\ issued' = d.issued
        /\ result' = d.result
        /\ pc' = IF Len(d.issued) = 0 THEN "returned" ELSE "pending"
        /\ ops' = ops + 1
        /\ UNCHANGED <<policy, fs, touched, raced, server>>

\* Mutant: existing paths are validated without resolving symbolic links.
Exists_NoSymlinkCheck(p) == ValidatePath(p)

Exists(p) == ValidatePathWithSymlinkCheck(p, TRUE)
MayCreate(p) == ValidatePathWithSymlinkCheck(p, FALSE)

access ==
    /\ pc = "idle"
    /\ \E p \in FsCandidates :
        Adapter([NoCall EXCEPT !.op = "access", !.path = p], Exists(p), Ok(<<>>))

readFile ==
    /\ pc = "idle"
    /\ \E p \in FsCandidates :
        Adapter([NoCall EXCEPT !.op = "readFile", !.path = p], Exists(p), Ok(<<>>))

writeFile ==
    /\ pc = "idle"
    /\ \E p \in FsCandidates :
        Adapter([NoCall EXCEPT !.op = "writeFile", !.path = p], MayCreate(p), Ok(<<>>))

mkdir ==
    /\ pc = "idle"
    /\ \E p \in FsCandidates, recursive \in BOOLEAN :
        Adapter([NoCall EXCEPT !.op = "mkdir", !.path = p, !.recursive = recursive],
                MayCreate(p), Ok(<<>>))

readdir ==
    /\ pc = "idle"
    /\ \E p \in FsCandidates :
        Adapter([NoCall EXCEPT !.op = "readdir", !.path = p], Exists(p), Ok(<<>>))

stat ==
    /\ pc = "idle"
    /\ \E p \in FsCandidates :
        Adapter([NoCall EXCEPT !.op = "stat", !.path = p], Exists(p), Ok(<<>>))

rm ==
    /\ pc = "idle"
    /\ \E p \in FsCandidates, recursive \in BOOLEAN, force \in BOOLEAN :
        Adapter([NoCall EXCEPT !.op = "rm", !.path = p, !.recursive = recursive,
                               !.force = force],
                Exists(p), Ok(<<>>))

unlink ==
    /\ pc = "idle"
    /\ \E p \in FsCandidates :
        Adapter([NoCall EXCEPT !.op = "unlink", !.path = p], Exists(p), Ok(<<>>))

copyFile ==
    /\ pc = "idle"
    /\ \E src \in ExistingCandidates, dest \in FsCandidates :
        Adapter([NoCall EXCEPT !.op = "copyFile", !.path = src, !.path2 = dest],
                Exists(src), MayCreate(dest))

appendFile ==
    /\ pc = "idle"
    /\ \E p \in FsCandidates :
        Adapter([NoCall EXCEPT !.op = "appendFile", !.path = p], MayCreate(p), Ok(<<>>))

rename ==
    /\ pc = "idle"
    /\ \E oldPath \in ExistingCandidates, newPath \in FsCandidates :
        Adapter([NoCall EXCEPT !.op = "rename", !.path = oldPath, !.path2 = newPath],
                Exists(oldPath), MayCreate(newPath))

\* Mutant: lstat validates with the symlink-resolving validator.
lstat_SymlinkCheck ==
    /\ pc = "idle"
    /\ \E p \in FsCandidates :
        Adapter([NoCall EXCEPT !.op = "lstat", !.path = p], Exists(p), Ok(<<>>))

lstat ==
    /\ pc = "idle"
    /\ \E p \in FsCandidates :
        Adapter([NoCall EXCEPT !.op = "lstat", !.path = p], ValidatePath(p), Ok(<<>>))

\* The delegated fs call runs and settles the adapter's promise.
Delegate ==
    /\ pc = "pending"
    /\ \E e \in {Perform(fs, issued[1])} :
           /\ fs' = e.fs
           /\ result' = e.result
           /\ touched' = e.touched
    /\ pc' = "returned"
    /\ UNCHANGED <<policy, call, issued, ops, raced, server>>

NextFs ==
    \/ validatePathWithSymlinkCheck
    \/ access \/ readFile \/ writeFile \/ mkdir \/ readdir \/ stat \/ rm
    \/ unlink \/ copyFile \/ appendFile \/ rename \/ lstat
    \/ Delegate \/ Return

SpecFs == InitFs /\ [][NextFs]_vars

-----------------------------------------------------------------------------
(* The adapter beside another process that changes the file system.        *)

\* The locations named by the components of a path below a top directory.
Components(p) ==
    { SubSeq(ResolveSegs(p), 1, k) : k \in 2..Len(ResolveSegs(p)) }

\* Where the other process may point a link it plants.
PlantedTargets == { PathOf(<<Le>>), PathOf(<<Le, <<"t">>>>) }

\* Between an adapter operation's validation and its delegated fs call,
\* another process replaces a component of a validated path by a symbolic
\* link.
ExternalChange ==
    /\ pc = "pending"
    /\ ~raced
    /\ \E loc \in Components(issued[1].path) \cup Components(issued[1].path2),
          target \in PlantedTargets :
            fs' = Put(RemoveTree(fs, loc), loc, LinkEntry(target))
    /\ raced' = TRUE
    /\ UNCHANGED <<policy, pc, call, result, issued, touched, ops, server>>

NextRace == NextFs \/ ExternalChange

\* The race is examined on servers started in strict mode with
\* ALLOWED_ROOT_DIRECTORY set: without a root there is no boundary to leave.
InitRace ==
    /\ InitFs
    /\ securityMode = "strict"
    /\ allowedRootDirectory # Null

SpecRace == InitRace /\ [][NextRace]_vars

-----------------------------------------------------------------------------
(* The path-validating middleware in front of a route.                     *)

\* The middleware returned by validatePathParams(...paramNames), called for
\* one request: the try block runs to next() or to the first error, which
\* the catch block answers.
validatePathParams ==
    /\ pc = "idle"
    /\ \E paramNames \in ParamLists, body \in Bodies :
        /\ req' = [paramNames |-> paramNames, body |-> body]
        /\ \E thrown \in {CheckParams(body, paramNames, 1)} :
            /\ nextCalls' = IF thrown = Passed THEN 1 ELSE 0
            /\ res' = Respond(thrown)
        /\ call' = [NoCall EXCEPT !.op = "validatePathParams"]
        /\ result' = Ok(Null)
        /\ pc' = "returned"
        /\ UNCHANGED <<policy, fs, issued, touched, ops, raced, limiter, routes>>

\* The request is over: the response was sent, or the route reached through
\* next() has answered.
EndRequest ==
    /\ pc = "returned"
    /\ call.op \in {"validatePathParams", "authMiddleware"}
    /\ pc' = "idle"
    /\ call' = NoCall
    /\ result' = NoResult
    /\ req' = NoReq
    /\ res' = NoRes
    /\ nextCalls' = 0
    /\ headers' = NoHeaders
    /\ retryAfter' = NoHeader
    /\ UNCHANGED <<policy, fs, issued, touched, ops, raced, limiter, API_KEY, setup>>

\* After startup, before the first request.
InitMw ==
    /\ \E env \in MwEnvs :
        /\ securityMode = ModeAfterInit(env)
        /\ allowedRootDirectory = RootAfterInit(Null, env)
        /\ dataDirectory = DataAfterInit(Null, env)
    /\ fs = StartFs(PathOf(<<Le, <<"t">>>>), TRUE)
    /\ pc = "idle"
    /\ call = NoCall
    /\ result = NoResult
    /\ issued = <<>>
    /\ touched = {}
    /\ ops = 0
    /\ ServerStart

NextMw == validatePathParams \/ EndRequest

SpecMw == InitMw /\ [][NextMw]_vars

-----------------------------------------------------------------------------
(* A rate limiter instance and its callers.                                *)

\* new RateLimiter(config)
InitRl ==
    /\ securityMode = "strict"
    /\ allowedRootDirectory = Null
    /\ dataDirectory = Null
    /\ fs = StartFs(PathOf(<<Le, <<"t">>>>), TRUE)
    /\ pc = "idle"
    /\ call = NoCall
    /\ result = NoResult
    /\ issued = <<>>
    /\ touched = {}
    /\ ops = 0
    /\ raced = FALSE
    /\ req = NoReq
    /\ res = NoRes
    /\ nextCalls = 0
    /\ attempts = [key \in Keys |-> NoRecord]
    /\ config \in Configs
    /\ now = 1
    /\ history = [key \in Keys |-> NoHistory]
    /\ RoutesStart

\* A method called with a key: the map it leaves and the value it returns.
Called(op, key, answer, returned) ==
    /\ call' = [NoCall EXCEPT !.op = op, !.key = key]
    /\ attempts' = answer.attempts
    /\ result' = returned
    /\ pc' = "returned"
    /\ UNCHANGED <<policy, fs, issued, touched, ops, raced, web, config, now, routes>>

isBlocked ==
    /\ pc = "idle"
    /\ \E key \in Keys : \E a \in {IsBlocked(attempts, config, now, key)} :
        /\ Called("isBlocked", key, a, Bool(a.value))
        /\ UNCHANGED history

getBlockTimeRemaining ==
    /\ pc = "idle"
    /\ \E key \in Keys : \E a \in {GetBlockTimeRemaining(attempts, config, now, key)} :
        /\ Called("getBlockTimeRemaining", key, a, Num(a.value))
        /\ UNCHANGED history

recordFailure ==
    /\ pc = "idle"
    /\ \E key \in Keys : \E a \in {RecordFailure(attempts, config, now, key)} :
        /\ history[key].n < MaxFailures
        /\ Called("recordFailure", key, a, Bool(a.value))
        /\ history' = [history EXCEPT ![key] =
                          Remember(@, attempts[key].present, config, now, a.value)]

reset ==
    /\ pc = "idle"
    /\ \E key \in Keys : \E a \in {Reset(attempts, config, now, key)} :
        /\ Called("reset", key, a, Ok(Null))
        /\ history' = [history EXCEPT ![key] = NoHistory]

getAttemptsRemaining ==
    /\ pc = "idle"
    /\ \E key \in Keys : \E a \in {GetAttemptsRemaining(attempts, config, now, key)} :
        /\ Called("getAttemptsRemaining", key, a, Num(a.value))
        /\ UNCHANGED history

\* The setInterval callback, or a direct call.
cleanup ==
    /\ pc = "idle"
    /\ Called("cleanup", "", Answer(Cleanup(attempts, config, now), 0), Ok(Null))
    /\ UNCHANGED history

\* Time passes.
Tick ==
    /\ pc = "idle"
    /\ now < MaxTime
    /\ now' = now + 1
    /\ UNCHANGED <<policy, fs, pc, call, result, issued, touched, ops, raced, web,
                   attempts, config, history, routes>>

NextRl ==
    \/ isBlocked \/ getBlockTimeRemaining \/ recordFailure \/ reset
    \/ getAttemptsRemaining \/ cleanup \/ Tick \/ Return

SpecRl == InitRl /\ [][NextRl]_vars

-----------------------------------------------------------------------------
(* The authentication middleware in front of the API, with the shared      *)
(* apiKeyRateLimiter.                                                      *)

\* authMiddleware(req, res, next) for one request.
authMiddleware ==
    /\ pc = "idle"
    /\ \E h \in Headers : \E a \in {AuthMiddleware(attempts, config, now, API_KEY, h)} :
        /\ headers' = h
        /\ attempts' = a.attempts
        /\ res' = a.res
        /\ nextCalls' = a.nextCalls
        /\ retryAfter' = a.retryAfter
        /\ history' =
              IF a.asked = "failure"
              THEN [history EXCEPT ![GetClientIp(h)] =
                       Remember(@, IsBlocked(attempts, config, now,
                                             GetClientIp(h)).attempts[GetClientIp(h)].present,
                                config, now, a.blocked)]
              ELSE IF a.asked = "reset"
              THEN [history EXCEPT ![GetClientIp(h)] = NoHistory]
              ELSE history
        /\ call' = [NoCall EXCEPT !.op = "authMiddleware", !.key = GetClientIp(h)]
    /\ result' = Ok(Null)
    /\ pc' = "returned"
    /\ UNCHANGED <<policy, fs, issued, touched, ops, raced, req, config, now,
                   API_KEY, setup>>

\* The interval callback: apiKeyRateLimiter.cleanup()
cleanupInterval ==
    /\ pc = "idle"
    /\ attempts' = Cleanup(attempts, config, now)
    /\ UNCHANGED <<policy, fs, pc, call, result, issued, touched, ops, raced, web,
                   config, now, history, routes>>

\* Five minutes pass.
Wait ==
    /\ pc = "idle"
    /\ now < MaxTime * CleanupIntervalMs
    /\ now' = now + CleanupIntervalMs
    /\ UNCHANGED <<policy, fs, pc, call, result, issued, touched, ops, raced, web,
                   attempts, config, history, routes>>

\* The module is loaded with or without AUTOMAKER_API_KEY; the shared
\* limiter has the default configuration.
InitAuth ==
    /\ securityMode = "strict"
    /\ allowedRootDirectory = Null
    /\ dataDirectory = Null
    /\ fs = StartFs(PathOf(<<Le, <<"t">>>>), TRUE)
    /\ pc = "idle"
    /\ call = NoCall
    /\ result = NoResult
    /\ issued = <<>>
    /\ touched = {}
    /\ ops = 0
    /\ raced = FALSE
    /\ req = NoReq
    /\ res = NoRes
    /\ nextCalls = 0
    /\ attempts = [key \in Keys |-> NoRecord]
    /\ config = DEFAULT_CONFIG
    /\ now = 1
    /\ history = [key \in Keys |-> NoHistory]
    /\ API_KEY \in {Null, ConfiguredKey}
    /\ headers = NoHeaders
    /\ retryAfter = NoHeader
    /\ locked = FALSE
    /\ queue = <<>>
    /\ ANTHROPIC_API_KEY = Unset
    /\ apiKeys = [p \in Providers |-> Unset]
    /\ rq = [i \in Requests |-> NoRq]
    /\ acquireOrder = <<>>
    /\ grantOrder = <<>>
    /\ lastStore = 0

NextAuth == authMiddleware \/ EndRequest \/ cleanupInterval \/ Wait

SpecAuth == InitAuth /\ [][NextAuth]_vars

-----------------------------------------------------------------------------
(* The setup routes: concurrent verify-claude-auth and store-api-key       *)
(* requests.  Each action is one run of a handler between two awaits.      *)

\* Requests are numbered in the order in which their handlers start.
Arriving(i) == rq[i].kind = "none" /\ \A j \in 1..(i - 1) : rq[j].kind # "none"

\* POST /verify-claude-auth: the handler up to `await
\* verificationMutex.acquire()`, or to the response when it answers before.
verifyClaudeAuth ==
    /\ \E i \in Requests, authMethod \in AuthMethods :
        /\ Arriving(i)
        /\ IF authMethod = "invalid"
           THEN /\ rq' = [rq EXCEPT ![i] = [@ EXCEPT !.kind = "verify",
                                                     !.authMethod = authMethod,
                                                     !.pc = "done",
                                                     !.statusCode = 400]]
                /\ UNCHANGED <<locked, queue, acquireOrder, grantOrder>>
           ELSE IF KeyMissing(authMethod, apiKeys, ANTHROPIC_API_KEY)
           THEN /\ rq' = [rq EXCEPT ![i] = [@ EXCEPT !.kind = "verify",
                                                     !.authMethod = authMethod,
                                                     !.pc = "done",
                                                     !.statusCode = 200,
                                                     !.success = TRUE,
                                                     !.authenticated = FALSE]]
                /\ UNCHANGED <<locked, queue, acquireOrder, grantOrder>>
           ELSE \E a \in {Acquire(locked, queue, i)} :
                /\ locked' = a.locked
                /\ queue' = a.queue
                /\ rq' = [rq EXCEPT ![i] =
                            [@ EXCEPT !.kind = "verify",
                                      !.authMethod = authMethod,
                                      !.pc = IF a.resolved THEN "granted" ELSE "waiting"]]
                /\ acquireOrder' = Append(acquireOrder, i)
                /\ grantOrder' = IF a.resolved THEN Append(grantOrder, i) ELSE grantOrder
    /\ UNCHANGED <<policy, fs, pc, call, result, issued, touched, ops, raced, web,
                   limiter, gate, ANTHROPIC_API_KEY, apiKeys, lastStore>>

\* The handler resumes after acquire(): it saves the variable, configures
\* it for the method, starts the query and awaits the stream.
startQuery ==
    /\ \E i \in Requests :
        /\ rq[i].pc = "granted"
        /\ rq' = [rq EXCEPT ![i] =
                    [@ EXCEPT !.pc = "querying",
                              !.originalAnthropicKey = ANTHROPIC_API_KEY]]
        /\ ANTHROPIC_API_KEY' = ConfigureEnv(rq[i].authMethod, apiKeys, ANTHROPIC_API_KEY)
    /\ UNCHANGED <<policy, fs, pc, call, result, issued, touched, ops, raced, web,
                   limiter, gate, locked, queue, apiKeys, acquireOrder, grantOrder,
                   lastStore>>

\* The query ends, one way or another: the catch and finally blocks run,
\* the variable is restored, the mutex released, the response written.
finishQuery ==
    /\ \E i \in Requests, outcome \in QueryOutcomes :
        /\ rq[i].pc = "querying"
        /\ ANTHROPIC_API_KEY' = RestoreEnv(rq[i].authMethod, rq[i].originalAnthropicKey,
                                           ANTHROPIC_API_KEY)
        /\ \E r \in {Release(locked, queue)} :
            /\ locked' = r.locked
            /\ queue' = r.queue
            /\ grantOrder' = IF r.next # 0 THEN Append(grantOrder, r.next) ELSE grantOrder
            /\ rq' = [j \in Requests |->
                        IF j = i
                        THEN [rq[j] EXCEPT !.pc = "done", !.statusCode = 200,
                                           !.success = TRUE,
                                           !.authenticated = (outcome = "verified"),
                                           !.releases = @ + 1]
                        ELSE IF j = r.next THEN [rq[j] EXCEPT !.pc = "granted"]
                        ELSE rq[j]]
    /\ UNCHANGED <<policy, fs, pc, call, result, issued, touched, ops, raced, web,
                   limiter, gate, apiKeys, acquireOrder, lastStore>>

\* POST /store-api-key: the handler up to `await persistApiKeyToEnv(...)`,
\* or to the response when it answers before.
storeApiKey ==
    /\ \E i \in Requests, body \in StoreBodies :
        /\ Arriving(i)
        /\ IF body.provider = "" \/ body.apiKey = Unset
           THEN /\ rq' = [rq EXCEPT ![i] = [@ EXCEPT !.kind = "store",
                                                     !.provider = body.provider,
                                                     !.apiKey = body.apiKey,
                                                     !.pc = "done",
                                                     !.statusCode = 400]]
                /\ UNCHANGED <<ANTHROPIC_API_KEY, apiKeys>>
           ELSE /\ apiKeys' = [apiKeys EXCEPT ![body.provider] = body.apiKey]
                /\ IF body.provider \in {"anthropic", "anthropic_oauth_token"}
                   THEN /\ ANTHROPIC_API_KEY' = body.apiKey
                        /\ rq' = [j \in Requests |->
                                    IF j = i
                                    THEN [rq[j] EXCEPT !.kind = "store",
                                                       !.provider = body.provider,
                                                       !.apiKey = body.apiKey,
                                                       !.pc = "persisting"]
                                    ELSE IF rq[j].pc = "querying"
                                    THEN [rq[j] EXCEPT !.overwritten = TRUE]
                                    ELSE rq[j]]
                   ELSE /\ rq' = [rq EXCEPT ![i] = [@ EXCEPT !.kind = "store",
                                                             !.provider = body.provider,
                                                             !.apiKey = body.apiKey,
                                                             !.pc = "done",
                                                             !.statusCode = 400]]
                        /\ UNCHANGED ANTHROPIC_API_KEY
        /\ lastStore' = i
    /\ UNCHANGED <<policy, fs, pc, call, result, issued, touched, ops, raced, web,
                   limiter, gate, locked, queue, acquireOrder, grantOrder>>

\* persistApiKeyToEnv settles: the handler answers success, or 500 when the
\* .env file could not be written.
finishStore ==
    /\ \E i \in Requests, persisted \in BOOLEAN :
        /\ rq[i].pc = "persisting"
        /\ rq' = [rq EXCEPT ![i] = [@ EXCEPT !.pc = "done",
                                             !.statusCode = IF persisted THEN 200 ELSE 500,
                                             !.success = persisted]]
    /\ UNCHANGED <<policy, fs, pc, call, result, issued, touched, ops, raced, web,
                   limiter, gate, locked, queue, ANTHROPIC_API_KEY, apiKeys,
                   acquireOrder, grantOrder, lastStore>>

\* The server is up, ANTHROPIC_API_KEY set or not, no key stored.
InitSetup ==
    /\ securityMode = "strict"
    /\ allowedRootDirectory = Null
    /\ dataDirectory = Null
    /\ fs = StartFs(PathOf(<<Le, <<"t">>>>), TRUE)
    /\ pc = "idle"
    /\ call = NoCall
    /\ result = NoResult
    /\ issued = <<>>
    /\ touched = {}
    /\ ops = 0
    /\ raced = FALSE
    /\ req = NoReq
    /\ res = NoRes
    /\ nextCalls = 0
    /\ attempts = [key \in Keys |-> NoRecord]
    /\ config = DEFAULT_CONFIG
    /\ now = 1
    /\ history = [key \in Keys |-> NoHistory]
    /\ API_KEY = Null
    /\ headers = NoHeaders
    /\ retryAfter = NoHeader
    /\ locked = FALSE
    /\ queue = <<>>
    /\ ANTHROPIC_API_KEY \in {Unset, "k0"}
    /\ apiKeys = [p \in Providers |-> Unset]
    /\ rq = [i \in Requests |-> NoRq]
    /\ acquireOrder = <<>>
    /\ grantOrder = <<>>
    /\ lastStore = 0

NextSetup == verifyClaudeAuth \/ startQuery \/ finishQuery \/ storeApiKey \/ finishStore

SpecSetup == InitSetup /\ [][NextSetup]_vars

\* Node runs the continuation of a resolved promise, and every query ends
\* or is aborted by its timeout.
SpecSetupFair == SpecSetup /\ WF_vars(startQuery) /\ WF_vars(finishQuery)

-----------------------------------------------------------------------------
(* Properties of the policy functions (checked under Spec).                *)

Returned(op) == pc = "returned" /\ call.op = op

\* Containment as the specification defines it: the boundary's segments are
\* a prefix of the segments of the path's resolved form (so the boundary
\* itself is contained); an unset boundary contains nothing.
Contained(p, dir) == dir # Null /\ IsUnder(ResolveSegs(p), ResolveSegs(dir))

\* The path has a ".." segment.
UsesDotDot(p) == \E i \in 1..Len(Split(p)) : Split(p)[i] = DotDot

\* C1: isPathAllowed(p) is true if and only if p's resolved form is contained
\* in the data directory, or contained in the allowed root, or the root is
\* unset and the mode is permissive.
C1_AllowedIffContained ==
    Returned("isPathAllowed") =>
        (result.bool <=>
            \/ Contained(call.path, dataDirectory)
            \/ Contained(call.path, allowedRootDirectory)
            \/ (allowedRootDirectory = Null /\ securityMode = "permissive"))

\* C5: with a root configured, isPathAllowed(p) is true for the root itself
\* and for every descendant of it, whatever the names below the root.
C5_DescendantsAllowed ==
    (Returned("isPathAllowed") /\ Contained(call.path, allowedRootDirectory))
        => result.bool = TRUE

\* C6: fail-closed.  With no root and strict mode, isPathAllowed is false and
\* validatePath throws PathNotAllowedError for every path not contained in
\* the data directory (also when there is no data directory); strict is the
\* mode an absent SECURITY_MODE gives.
C6_FailClosed ==
    /\ (/\ pc = "returned"
        /\ allowedRootDirectory = Null
        /\ securityMode = "strict"
        /\ ~Contained(call.path, dataDirectory))
       => /\ call.op = "isPathAllowed" => result.bool = FALSE
          /\ call.op = "validatePath" => result.status = "PathNotAllowedError"
    /\ (Returned("initAllowedPaths") /\ call.env.mode = "")
       => securityMode = "strict"

\* validatePath has refused a path under strict mode with neither a root
\* nor a data directory.
C6_Witness ==
    /\ Returned("validatePath")
    /\ securityMode = "strict"
    /\ allowedRootDirectory = Null
    /\ dataDirectory = Null
    /\ result.status = "PathNotAllowedError"

\* C7: strict mode, root configured: isPathAllowed is false for every path
\* whose resolved form is outside the root and outside the data directory.
C7_OutsideDenied ==
    (/\ Returned("isPathAllowed")
     /\ securityMode = "strict"
     /\ allowedRootDirectory # Null
     /\ ~Contained(call.path, allowedRootDirectory)
     /\ ~Contained(call.path, dataDirectory))
    => result.bool = FALSE

\* The sibling /ab of the root /a, which shares its name as a string prefix,
\* has been denied.
C7_Witness ==
    /\ Returned("isPathAllowed")
    /\ securityMode = "strict"
    /\ allowedRootDirectory = <<Slash, "a">>
    /\ Resolve(call.path) = <<Slash, "a", "b">>
    /\ result.bool = FALSE

\* C8: every path contained in the data directory is allowed, in every mode
\* and with or without a root.
C8_DataAlwaysAllowed ==
    (Returned("isPathAllowed") /\ Contained(call.path, dataDirectory))
        => result.bool = TRUE

\* C9: fail-open.  Permissive mode without a root: isPathAllowed is true and
\* validatePath returns for every path, with or without a data directory.
C9_FailOpen ==
    (/\ pc = "returned"
     /\ securityMode = "permissive"
     /\ allowedRootDirectory = Null)
    => /\ call.op = "isPathAllowed" => result.bool = TRUE
       /\ call.op = "validatePath" => result.status = "ok"

\* A path outside the configured data directory has been allowed in
\* permissive mode without a root.
C9_Witness ==
    /\ Returned("isPathAllowed")
    /\ securityMode = "permissive"
    /\ allowedRootDirectory = Null
    /\ dataDirectory # Null
    /\ ~Contained(call.path, dataDirectory)
    /\ result.bool = TRUE

\* C10: traversal neutralization.  isPathAllowed gives a path the result it
\* gives its collapsed form; with a root configured, a path with ".."
\* segments that collapses outside the root (and the data directory) is
\* denied and one that collapses inside the root is allowed.
C10_TraversalNeutralized ==
    Returned("isPathAllowed") =>
        /\ result.bool = IsPathAllowed(Resolve(call.path))
        /\ (UsesDotDot(call.path) /\ allowedRootDirectory # Null) =>
            /\ (/\ ~Contained(call.path, allowedRootDirectory)
                /\ ~Contained(call.path, dataDirectory)) => result.bool = FALSE
            /\ Contained(call.path, allowedRootDirectory) => result.bool = TRUE

-----------------------------------------------------------------------------
(* Properties of the symlink-checking validator and of the adapter         *)
(* (checked under SpecFs).                                                 *)

Strict == securityMode = "strict" /\ allowedRootDirectory # Null

\* The path names a symbolic link whose target is outside both boundaries.
IsEscapingLink(p) ==
    LET e == EntryLoc(fs, Resolve(p))
    IN  /\ e.err = ""
        /\ KindAt(fs, e.loc) = "link"
        /\ ~Contained(fs[e.loc].target, allowedRootDirectory)
        /\ ~Contained(fs[e.loc].target, dataDirectory)

\* C2: strict mode, root configured: validatePathWithSymlinkCheck returns no
\* path for a path inside the root that is a symbolic link to a target
\* outside both boundaries, for either value of requireExists and whether
\* or not the target exists.
C2_SymlinkEscapeFails ==
    (/\ Returned("validatePathWithSymlinkCheck")
     /\ Strict
     /\ Contained(call.path, allowedRootDirectory)
     /\ IsEscapingLink(call.path))
    => result.status # "ok"

AdapterOps == {"access", "readFile", "writeFile", "mkdir", "readdir", "stat", "rm",
               "unlink", "copyFile", "appendFile", "rename", "lstat"}

\* The validation the specification prescribes for the first and for the
\* second path argument of adapter call c, in the current state.
FirstCheck(c) ==
    IF c.op = "lstat" THEN ValidatePath(c.path)
    ELSE ValidatePathWithSymlinkCheck(c.path,
                                      c.op \notin {"writeFile", "mkdir", "appendFile"})

SecondCheck(c) ==
    IF c.op \in {"copyFile", "rename"}
    THEN ValidatePathWithSymlinkCheck(c.path2, FALSE)
    ELSE Ok(<<>>)

\* C3: an adapter call one of whose path arguments fails validation throws
\* and delegates no fs call, so the file system is neither read nor changed;
\* the file system changes only by the one call delegated after every
\* argument has passed.
C3_NoIoOnValidationFailure ==
    [][/\ (/\ pc = "idle"
           /\ call'.op \in AdapterOps
           /\ (FirstCheck(call').status # "ok" \/ SecondCheck(call').status # "ok"))
          => /\ pc' = "returned"
             /\ issued' = <<>>
             /\ result'.status \notin {"ok", "none"}
             /\ fs' = fs
             /\ touched' = {}
       /\ Len(issued') <= 1
       /\ (fs' # fs \/ touched' # {})
          => pc = "pending" /\ Len(issued) = 1 /\ issued' = issued]_vars

\* copyFile has thrown PathNotAllowedError for its destination after its
\* source passed validation, and nothing was delegated.
C3_Witness ==
    /\ Returned("copyFile")
    /\ FirstCheck(call).status = "ok"
    /\ SecondCheck(call).status = "PathNotAllowedError"
    /\ result.status = "PathNotAllowedError"
    /\ issued = <<>>

\* The longest prefix of the segments that names an existing entry.
RECURSIVE NearestExisting(_, _)
NearestExisting(F, segs) ==
    IF RealLoc(F, PathOf(segs)).err = "" THEN segs
    ELSE NearestExisting(F, Front(segs))

\* C4: with a root configured, for a path that does not exist and
\* requireExists = false, the real path of the nearest existing ancestor is
\* what is checked: if it is outside both boundaries the call throws
\* PathNotAllowedError, otherwise the call returns the missing remainder of
\* the path rebuilt under that real path.
C4_NearestAncestorChecked ==
    (/\ Returned("validatePathWithSymlinkCheck")
     /\ allowedRootDirectory # Null
     /\ ~call.requireExists
     /\ LstatSync(fs, Resolve(call.path)).err = "ENOENT")
    => LET segs == ResolveSegs(call.path)
           anc == NearestExisting(fs, Front(segs))
           real == RealLoc(fs, PathOf(anc)).loc
           rest == SubSeq(segs, Len(anc) + 1, Len(segs))
       IN  IF \/ Contained(PathOf(real), allowedRootDirectory)
              \/ Contained(PathOf(real), dataDirectory)
           THEN result.status = "ok" /\ result.value = PathOf(real \o rest)
           ELSE result.status = "PathNotAllowedError"

\* Right after an adapter call's validation: the fs call is delegated and
\* has not run, or validation failed and nothing was delegated.  The file
\* system is still the one the validation saw.
AtValidation ==
    /\ call.op \in AdapterOps
    /\ pc = "pending" \/ (pc = "returned" /\ issued = <<>>)

TwoPathOps == {"copyFile", "rename"}

\* C11: for every adapter operation whose validation succeeds, the path
\* handed to the fs call is exactly the path the validator returned for that
\* argument (the real path of an existing entry, the path rebuilt under the
\* real parent for a new one), not the caller's string.
C11_ResolvedPathDelegated ==
    (pc = "pending" /\ call.op \in AdapterOps)
    => /\ Len(issued) = 1
       /\ issued[1].fn = call.op
       /\ FirstCheck(call).status = "ok"
       /\ issued[1].path = FirstCheck(call).value
       /\ call.op \in TwoPathOps =>
            /\ SecondCheck(call).status = "ok"
            /\ issued[1].path2 = SecondCheck(call).value

\* readFile was called on a path through a link and the fs call was handed
\* the real path, which differs from the caller's string.
C11_Witness ==
    /\ pc = "pending"
    /\ call.op = "readFile"
    /\ issued[1].path # Resolve(call.path)
    /\ issued[1].path = RealpathSync(fs, call.path).path

ExistingOps == {"access", "readFile", "readdir", "stat", "rm", "unlink"}
CreatingOps == {"writeFile", "mkdir", "appendFile"}

\* The path names nothing: following it ends at a missing entry.
NotExists(p) == RealLoc(fs, p).err = "ENOENT"

\* The thrown error of a failed validation, "ok" when it passed.
Outcome == IF pc = "pending" THEN "ok" ELSE result.status

\* C12: validator selection.  access, readFile, readdir, stat, rm, unlink
\* validate as validatePathWithSymlinkCheck(p, requireExists = true), so a
\* missing path fails with ENOENT before any I/O; writeFile, mkdir,
\* appendFile validate with requireExists = false, so a missing path under
\* an allowed existing parent is accepted; copyFile and rename validate the
\* source with requireExists = true, then the destination with
\* requireExists = false; lstat validates as validatePath, so lstat on an
\* in-boundary link to a target outside the boundary is accepted and
\* reports on the link.
C12_ValidatorSelection ==
    /\ (AtValidation /\ call.op \in ExistingOps)
       => /\ Outcome = ValidatePathWithSymlinkCheck(call.path, TRUE).status
          /\ NotExists(call.path) => (Outcome = "ENOENT" /\ issued = <<>>)
    /\ (AtValidation /\ call.op \in CreatingOps)
       => /\ Outcome = ValidatePathWithSymlinkCheck(call.path, FALSE).status
          /\ (/\ LstatSync(fs, Resolve(call.path)).err = "ENOENT"
              /\ RealpathSync(fs, Dirname(Resolve(call.path))).err = ""
              /\ IsPathAllowed(RealpathSync(fs, Dirname(Resolve(call.path))).path))
             => Outcome = "ok"
    /\ (AtValidation /\ call.op \in TwoPathOps)
       => LET src == ValidatePathWithSymlinkCheck(call.path, TRUE).status
              dest == ValidatePathWithSymlinkCheck(call.path2, FALSE).status
          IN  Outcome = IF src # "ok" THEN src ELSE dest
    /\ (AtValidation /\ call.op = "lstat")
       => Outcome = ValidatePath(call.path).status
    /\ (/\ Returned("lstat")
        /\ Strict
        /\ Contained(call.path, allowedRootDirectory)
        /\ IsEscapingLink(call.path))
       => /\ result.status = "ok"
          /\ result.value = <<"link">>
          /\ touched = {ResolveSegs(call.path)}

\* lstat on the in-boundary link /a/l, whose target lies outside the root,
\* has reported on the link itself.
C12_Witness ==
    /\ Returned("lstat")
    /\ Strict
    /\ IsEscapingLink(call.path)
    /\ result.value = <<"link">>
    /\ touched = {ResolveSegs(call.path)}

\* C13: validatePathWithSymlinkCheck(p) with requireExists = true on a path
\* that does not exist throws the underlying ENOENT error: it returns no
\* path and falls back neither to the parent directory nor to validatePath.
C13_MissingSurfacesNotFound ==
    (/\ Returned("validatePathWithSymlinkCheck")
     /\ call.requireExists
     /\ NotExists(call.path))
    => /\ result.status = "ENOENT"
       /\ result.value = Null

\* A missing name directly under the allowed root, which the parent
\* validation would have accepted, was refused with ENOENT.
C13_Witness ==
    /\ Returned("validatePathWithSymlinkCheck")
    /\ call.requireExists
    /\ NotExists(call.path)
    /\ ValidatePathWithSymlinkCheck(call.path, FALSE).status = "ok"
    /\ result.status = "ENOENT"

-----------------------------------------------------------------------------
(* Further properties of the policy functions (checked under Spec).        *)

\* C14: validatePath(p) returns the resolved absolute form of p when
\* isPathAllowed(p) holds and otherwise throws PathNotAllowedError whose
\* message names the original input p; it is idempotent: validating its
\* result again gives the same result, and an already-resolved path
\* contained in a boundary is returned unchanged.
C14_ValidatePathContract ==
    Returned("validatePath") =>
        /\ IsPathAllowed(call.path) =>
            /\ result.status = "ok"
            /\ IsAbsolute(result.value)
            /\ result.value = Resolve(call.path)
            /\ ValidatePath(result.value) = result
        /\ ~IsPathAllowed(call.path) =>
            /\ result.status = "PathNotAllowedError"
            /\ result.about = <<call.path>>
        /\ (/\ call.path = Resolve(call.path)
            /\ \/ Contained(call.path, allowedRootDirectory)
               \/ Contained(call.path, dataDirectory))
           => result = Ok(call.path)

\* C15: boundary inclusivity.  With root R configured, isPathAllowed(R) is
\* true, and so is isPathAllowed of R written with a trailing separator.
C15_BoundaryInclusive ==
    (/\ Returned("isPathAllowed")
     /\ allowedRootDirectory # Null
     /\ \/ call.path = allowedRootDirectory
        \/ call.path = allowedRootDirectory \o <<Slash>>)
    => result.bool = TRUE

\* The root written with a trailing separator has been allowed in strict
\* mode.
C15_Witness ==
    /\ Returned("isPathAllowed")
    /\ securityMode = "strict"
    /\ allowedRootDirectory # Null
    /\ call.path = allowedRootDirectory \o <<Slash>>
    /\ result.bool = TRUE

\* C16: after every call of initAllowedPaths, a second or later one
\* included, the policy state is exactly the configuration that call read:
\* the root is the resolved ALLOWED_ROOT_DIRECTORY when set and null when
\* not, the data directory the resolved DATA_DIR when set and null when
\* not, the mode permissive iff SECURITY_MODE in lower case is
\* 'permissive' and strict otherwise; the call does not throw.
C16_InitReflectsEnvironment ==
    Returned("initAllowedPaths") =>
        /\ result.status = "ok"
        /\ allowedRootDirectory =
              IF call.env.root = Null THEN Null ELSE Resolve(call.env.root)
        /\ dataDirectory =
              IF call.env.data = Null THEN Null ELSE Resolve(call.env.data)
        /\ securityMode =
              IF call.env.mode \in {"permissive", "PERMISSIVE"} THEN "permissive"
              ELSE "strict"

-----------------------------------------------------------------------------
(* The race between validation and use (checked under SpecRace).           *)

\* The location lies outside the allowed root and outside the data directory.
Outside(loc) ==
    /\ ~Contained(PathOf(loc), allowedRootDirectory)
    /\ ~Contained(PathOf(loc), dataDirectory)

\* The operations that validate with the symlink-resolving validator.
ResolvingOps == AdapterOps \ {"lstat"}

\* C17: confinement is not an invariant under concurrent file system
\* change.  With a root configured, the delegated call of an operation whose
\* validated paths name existing entries acts only inside the boundaries as
\* long as no other process changes the file system between validation and
\* use; a change in that gap (C17_Witness) makes the call act outside both
\* boundaries although the resolved path is used.
C17_EscapeOnlyByRace ==
    [][(/\ pc = "pending"
        /\ pc' = "returned"
        /\ call.op \in ResolvingOps
        /\ allowedRootDirectory # Null
        /\ RealLoc(fs, call.path).err = ""
        /\ call.op \in TwoPathOps => RealLoc(fs, call.path2).err = ""
        /\ \E loc \in touched' : Outside(loc))
       => raced]_vars

\* writeFile validated the existing file /a/f inside the root and was handed
\* its real path; another process then replaced /a/f by a link, and the
\* delegated call wrote to a location outside both boundaries.
C17_Witness ==
    /\ Returned("writeFile")
    /\ Strict
    /\ raced
    /\ issued[1].path = Resolve(call.path)
    /\ Contained(issued[1].path, allowedRootDirectory)
    /\ result.status = "ok"
    /\ \E loc \in touched : Outside(loc)

-----------------------------------------------------------------------------
(* The middleware's outcomes (checked under SpecMw).                       *)

\* Every check a request calls for, in declared order, each with its
\* verdict taken on its own: "pass", "type" for a wrongly typed value,
\* "denied" for a string that validatePath refuses.
Verdict(value) ==
    IF value.type # "string" THEN "type"
    ELSE IF IsPathAllowed(value.str) THEN "pass"
    ELSE "denied"

RECURSIVE ItemVerdicts(_)
ItemVerdicts(items) ==
    IF Len(items) = 0 THEN <<>>
    ELSE <<Verdict(Head(items))>> \o ItemVerdicts(Tail(items))

ParamVerdicts(body, param) ==
    IF body[param.name].type \in {"undefined", "null"} THEN <<>>
    ELSE IF param.suffix = "[]"
         THEN IF body[param.name].type = "array"
              THEN ItemVerdicts(body[param.name].items)
              ELSE <<"type">>
    ELSE <<Verdict(body[param.name])>>

RECURSIVE Verdicts(_, _)
Verdicts(body, paramNames) ==
    IF Len(paramNames) = 0 THEN <<>>
    ELSE ParamVerdicts(body, Head(paramNames)) \o Verdicts(body, Tail(paramNames))

\* The first verdict that is not "pass"; "pass" when there is none.
FirstFailure(verdicts) ==
    IF \A i \in 1..Len(verdicts) : verdicts[i] = "pass" THEN "pass"
    ELSE verdicts[CHOOSE i \in 1..Len(verdicts) :
                    /\ verdicts[i] # "pass"
                    /\ \A j \in 1..(i - 1) : verdicts[j] = "pass"]

-----------------------------------------------------------------------------
(* The rate limiter's thresholds and expiry (checked under SpecRl).        *)

\* All failures recorded for the key since it had no record fell inside one
\* window, which begins with the first of them.
InOneWindow(key) ==
    /\ history[key].n >= 1
    /\ history[key].last <= history[key].first + config.windowMs

\* C19: for a key with no prior record, the n-th recordFailure inside one
\* window returns false for n < maxAttempts and true for n = maxAttempts;
\* isBlocked is false after fewer than maxAttempts failures and true after
\* maxAttempts; getAttemptsRemaining is max(0, maxAttempts - n) and always
\* within 0..maxAttempts; failures recorded for one key leave the records
\* of every other key as they were.
C19_Threshold ==
    /\ [](Returned("recordFailure") /\ InOneWindow(call.key)
           => /\ history[call.key].n < config.maxAttempts => result.bool = FALSE
              /\ history[call.key].n = config.maxAttempts => result.bool = TRUE)
    /\ [](Returned("isBlocked")
           => /\ (~attempts[call.key].present \/ history[call.key].n < config.maxAttempts)
                 => result.bool = FALSE
              /\ (/\ InOneWindow(call.key)
                  /\ history[call.key].n >= config.maxAttempts
                  /\ now < history[call.key].last + config.blockDurationMs)
                 => result.bool = TRUE)
    /\ [](Returned("getAttemptsRemaining")
           => /\ result.num \in 0..config.maxAttempts
              /\ ~attempts[call.key].present => result.num = config.maxAttempts
              /\ (/\ attempts[call.key].present
                  /\ now <= history[call.key].first + config.windowMs)
                 => result.num = Max(0, Minus(config.maxAttempts, history[call.key].n)))
    /\ [][call'.op = "recordFailure"
           => \A key \in Keys \ {call'.key} : attempts'[key] = attempts[key]]_vars

\* The instant from which the block recorded for the key is over.
BlockEnd(key) == history[key].blockedAt + config.blockDurationMs

WasBlocked(key) == history[key].blockedAt # 0

\* The block recorded for the key is over and no failure was recorded for
\* the key since the one that blocked it.
BlockOver(key) ==
    /\ WasBlocked(key)
    /\ history[key].last = history[key].blockedAt
    /\ now >= BlockEnd(key)

\* C20: a key blocked at time t is reported blocked by isBlocked at every
\* time before t + blockDurationMs; from t + blockDurationMs on isBlocked
\* returns false, getBlockTimeRemaining returns 0 and the key has the full
\* maxAttempts available again, also after cleanup(); reset(key) at any
\* time clears the block and the count at once.
C20_BlockExpiry ==
    /\ (Returned("isBlocked") /\ WasBlocked(call.key) /\ now < BlockEnd(call.key))
       => result.bool = TRUE
    /\ (Returned("isBlocked") /\ BlockOver(call.key))
       => result.bool = FALSE
    /\ (Returned("getBlockTimeRemaining") /\ BlockOver(call.key))
       => result.num = 0
    /\ (Returned("getAttemptsRemaining") /\ BlockOver(call.key))
       => result.num = config.maxAttempts
    /\ Returned("cleanup")
       => \A key \in Keys : BlockOver(key) => ~attempts[key].present
    /\ Returned("reset") => attempts[call.key] = NoRecord

-----------------------------------------------------------------------------
(* The rate limiter's window (checked under SpecRl).                       *)

\* The key has a record, is not blocked at time t, and more than windowMs
\* has passed since the first failure of the record's window.
WindowOver(A, key, t) ==
    /\ A[key].present
    /\ (A[key].blockedUntil = 0 \/ t >= A[key].blockedUntil)
    /\ t > A[key].firstAttempt + config.windowMs

\* C21: for a key that is not blocked, once more than windowMs has passed
\* since the first failure of its window, getAttemptsRemaining returns
\* maxAttempts and the next recordFailure starts a fresh window: it returns
\* false and leaves a record of count 1 begun now, with maxAttempts - 1
\* attempts remaining.  cleanup() removes only records whose window or
\* block has expired and leaves every other record as it was.
C21_WindowReset ==
    /\ [](Returned("getAttemptsRemaining") /\ WindowOver(attempts, call.key, now)
           => result.num = config.maxAttempts)
    /\ [][(call'.op = "recordFailure" /\ WindowOver(attempts, call'.key, now))
           => /\ result'.bool = FALSE
              /\ attempts'[call'.key] = AttemptRecord(1, now, 0)
              /\ GetAttemptsRemaining(attempts', config, now, call'.key).value
                    = config.maxAttempts - 1]_vars
    /\ [][call'.op = "cleanup"
           => \A key \in Keys :
                \/ attempts'[key] = attempts[key]
                \/ /\ attempts[key].present
                   /\ ~attempts'[key].present
                   /\ \/ now > attempts[key].firstAttempt + config.windowMs
                      \/ /\ attempts[key].blockedUntil # 0
                         /\ now >= attempts[key].blockedUntil]_vars

\* A failure recorded for a key whose earlier failures lie more than
\* windowMs back: it opened a window of its own.
C21_Witness ==
    /\ Returned("recordFailure")
    /\ history[call.key].n >= 2
    /\ now > history[call.key].first + config.windowMs
    /\ attempts[call.key] = AttemptRecord(1, now, 0)
    /\ result.bool = FALSE

-----------------------------------------------------------------------------
(* The authentication middleware's decisions (checked under SpecAuth).     *)

\* The limiter holds a block for the key that has not yet run out.
BlockedNow(A, key, t) ==
    A[key].present /\ A[key].blockedUntil # 0 /\ t < A[key].blockedUntil

\* C22: with no API key configured every request calls next() and writes
\* no response.  With a key configured each request has exactly one
\* outcome: 429 if the client is blocked; otherwise 401 if the X-API-Key
\* header is missing or empty, and no failure is recorded; otherwise 403 if
\* the header differs from the configured key, and one failure is recorded
\* for the client; otherwise next() is called and the client's record is
\* reset, so that maxAttempts attempts are available.  next() is called
\* only with no key configured or on an exact match.
C22_AuthDecision ==
    [][call'.op = "authMiddleware" =>
        /\ nextCalls' \in {0, 1}
        /\ (nextCalls' = 1) <=> (res' = NoRes)
        /\ (nextCalls' = 1) => (API_KEY = Null \/ headers'.apiKey = API_KEY)
        /\ IF API_KEY = Null
           THEN nextCalls' = 1 /\ attempts' = attempts
           ELSE IF BlockedNow(attempts, call'.key, now)
           THEN res'.statusCode = 429 /\ attempts' = attempts
           ELSE IF headers'.apiKey = Null
           THEN /\ res'.statusCode = 401
                /\ attempts'[call'.key] \in {attempts[call'.key], NoRecord}
           ELSE IF headers'.apiKey # API_KEY
           THEN /\ res'.statusCode = 403
                /\ attempts'[call'.key].present
                /\ attempts'[call'.key].count \in {1, attempts[call'.key].count + 1}
                /\ attempts'[call'.key] # attempts[call'.key]
           ELSE /\ nextCalls' = 1
                /\ attempts'[call'.key] = NoRecord
                /\ GetAttemptsRemaining(attempts', config, now, call'.key).value
                      = config.maxAttempts]_vars

\* A request carrying a proper prefix of the configured key was answered
\* 403 and its failure counted on top of an earlier one.
C22_Witness ==
    /\ Returned("authMiddleware")
    /\ API_KEY = ConfiguredKey
    /\ headers.apiKey = <<"s">>
    /\ res.statusCode = 403
    /\ nextCalls = 0
    /\ attempts[call.key].count >= 2


\* maxAttempts wrong-key requests of the client, with no successful one in
\* between, fell inside one window, and the block duration has not elapsed
\* since the last of them.
LockedOut(key) ==
    /\ InOneWindow(key)
    /\ history[key].n >= config.maxAttempts
    /\ now < history[key].last + config.blockDurationMs

\* C23: with an API key configured, after maxAttempts wrong-key requests
\* from one client inside one window and with no successful request in
\* between, every further request of that client is answered 429 with a
\* Retry-After header and next() is not called, whatever key it carries,
\* until the block duration has elapsed.
C23_Lockout ==
    [][(call'.op = "authMiddleware" /\ API_KEY # Null /\ LockedOut(call'.key))
        => /\ res'.statusCode = 429
           /\ retryAfter'.set
           /\ nextCalls' = 0]_vars

\* The client that sent five wrong keys sends the right one ten minutes
\* later and is answered 429.
C23_Witness ==
    /\ Returned("authMiddleware")
    /\ API_KEY = ConfiguredKey
    /\ headers.apiKey = ConfiguredKey
    /\ history[call.key].n = config.maxAttempts
    /\ InOneWindow(call.key)
    /\ now > history[call.key].last + CleanupIntervalMs
    /\ res.statusCode = 429
    /\ retryAfter.set
    /\ retryAfter.value > 0
    /\ nextCalls = 0

-----------------------------------------------------------------------------
(* Confinement of the adapter on a file system nobody else changes         *)
(* (checked under SpecFs).                                                 *)

\* C24: in strict mode with a configured root, every adapter operation that
\* reaches the file system reads, creates, modifies or removes only entries
\* whose real location lies inside the allowed root or the data directory.
C24_AdapterConfined ==
    (pc = "returned" /\ call.op \in AdapterOps /\ Strict)
        => \A loc \in touched : ~Outside(loc)

-----------------------------------------------------------------------------
(* Persistence of a block (checked under SpecRl).                          *)

\* C27: once recordFailure has blocked a key, isBlocked(key) stays true
\* until blockDurationMs has elapsed since the most recent blocking failure
\* or reset(key) is called, whatever recordFailure, getAttemptsRemaining,
\* getBlockTimeRemaining and cleanup calls are made meanwhile; and while
\* the key is blocked getAttemptsRemaining(key) is 0.
C27_BlockedStaysBlocked ==
    /\ (Returned("isBlocked") /\ WasBlocked(call.key) /\ now < BlockEnd(call.key))
       => result.bool = TRUE
    /\ (Returned("getAttemptsRemaining") /\ BlockedNow(attempts, call.key, now))
       => result.num = 0

-----------------------------------------------------------------------------
(* What a rejected caller learns about the outside (checked under SpecFs). *)

\* The two file systems have the same entries inside the boundaries.
SameInside(F, G) ==
    \A loc \in (DOMAIN F) \cup (DOMAIN G) :
        Outside(loc) \/ (loc \in DOMAIN F /\ loc \in DOMAIN G /\ F[loc] = G[loc])

\* The outcome of validating the first path argument of call c on file
\* system F.
ValidationOn(F, c) ==
    IF c.op = "lstat" THEN ValidatePath(c.path)
    ELSE ValidatePathWithSymlinkCheckIn(F, c.path,
            IF c.op = "validatePathWithSymlinkCheck" THEN c.requireExists
            ELSE c.op \notin CreatingOps)

\* C28: in strict mode with a configured root, for a candidate path outside
\* both boundaries the outcome of validatePathWithSymlinkCheck and of every
\* adapter operation, error kind and message, is the same in any two file
\* systems that differ only outside the boundaries.
C28_NoExistenceOracle ==
    (/\ pc = "returned"
     /\ call.op \in AdapterOps \cup {"validatePathWithSymlinkCheck"}
     /\ issued = <<>>
     /\ Strict
     /\ ~IsPathAllowed(call.path))
        => \A G \in StartFileSystems :
              SameInside(fs, G) => ValidationOn(G, call) = result


\* The requests inside the critical section: acquire() resolved, release()
\* not yet called.
Holders == {i \in Requests : rq[i].pc \in {"granted", "querying"}}

\* The handler of request i runs its finally block in this step.
Leaves(i) == rq[i].pc = "querying" /\ rq'[i].pc = "done"

\* C25: at most one verify-claude-auth request at a time is between the
\* resolution of its acquire() and its release(); a release with waiters hands
\* the lock to the oldest waiter and leaves it locked, and the lock is marked
\* free only by a release that finds no waiter.
C25_MutualExclusion ==
    /\ [](Cardinality(Holders) <= 1)
    /\ [][\A i \in Requests :
            Leaves(i) =>
                IF queue # <<>>
                THEN /\ locked'
                     /\ rq'[Head(queue)].pc = "granted"
                     /\ queue' = Tail(queue)
                     /\ \A j \in Requests : rq[j].pc = "waiting" /\ j # Head(queue)
                                                => rq'[j].pc = "waiting"
                ELSE ~locked']_vars
    /\ [][locked /\ ~locked' => queue = <<>> /\ \E i \in Requests : Leaves(i)]_vars

\* One request has released, the oldest waiter holds the lock and runs its
\* query, a third request still waits.
C25_Witness ==
    \E i, j, k \in Requests :
        /\ rq[i].pc = "done" /\ rq[i].releases = 1
        /\ rq[j].pc = "querying" /\ grantOrder = <<i, j>>
        /\ rq[k].pc = "waiting" /\ queue = <<k>>
        /\ locked

\* C26: when a verify-claude-auth request leaves its critical section, for
\* every outcome of the query and every authMethod, ANTHROPIC_API_KEY has the
\* value it had when the request entered the section (unset if it was unset),
\* provided no other code wrote the variable meanwhile.
C26_EnvRestored ==
    [][\A i \in Requests :
        Leaves(i) /\ ~rq[i].overwritten
            => ANTHROPIC_API_KEY' = rq[i].originalAnthropicKey]_vars

\* C29: once a store-api-key request for provider anthropic or
\* anthropic_oauth_token has answered success, and until the next store
\* request, ANTHROPIC_API_KEY equals the key it stored whenever no
\* verification is inside its critical section.
C29_StoredKeyStays ==
    lastStore # 0 /\ rq[lastStore].pc = "done" /\ rq[lastStore].success
                  /\ (\A j \in Requests : rq[j].pc # "querying")
        => ANTHROPIC_API_KEY = rq[lastStore].apiKey

\* p is a prefix of s.
IsPrefix(p, s) == Len(p) <= Len(s) /\ \A n \in 1..Len(p) : p[n] = s[n]

\* C30: every verify-claude-auth request that waits in acquire() is
\* eventually granted the mutex, given that every query ends; grants follow
\* the order of the acquire() calls; a request that acquired releases exactly
\* once, and the mutex is never locked without a holder.
C30_MutexLiveness ==
    /\ \A i \in Requests : (rq[i].pc = "waiting") ~> (rq[i].pc = "granted")
    /\ [](IsPrefix(grantOrder, acquireOrder))
    /\ [](\A i \in Requests :
            rq[i].releases =
                IF rq[i].pc = "done" /\ \E n \in 1..Len(acquireOrder) : acquireOrder[n] = i
                THEN 1 ELSE 0)
    /\ [](locked => Holders # {})

\* Three requests called acquire() one after another; the first two have
\* released, the third was granted after waiting behind both.
C30_Witness ==
    /\ Len(acquireOrder) = MaxRequests
    /\ grantOrder = acquireOrder
    /\ \A n \in 1..(MaxRequests - 1) :
        rq[acquireOrder[n]].pc = "done" /\ rq[acquireOrder[n]].releases = 1
    /\ rq[acquireOrder[MaxRequests]].pc = "granted"
    /\ locked

=============================================================================
